---- MODULE Spec2Model ----
(***************************************************************************)
(* State-machine model of the movie search bot (src/main.py, src/bot.py). *)
(*                                                                         *)
(* Text is modelled as sequences of one-character strings so that         *)
(* split / strip / startswith / int() are computed, not assumed.          *)
(* Time is in milliseconds; time.time() is the variable now.              *)
(* User ids are small integers: 1 stands for the id listed in ADMIN_IDS,  *)
(* 2 is an ordinary user.                                                  *)
(***************************************************************************)
EXTENDS Integers, Sequences, FiniteSets, Bags, TLC

\* ------------------------------------------------------------------ bounds
MaxWorkers == 2      \* ingestion worker threads that may be in flight
MaxPostId == 1       \* channel message ids range over 0..MaxPostId
MaxCatalogPostId == 2  \* and over 1..MaxCatalogPostId where records of two posts coexist
MaxQueries == 3      \* free-text queries handled in a run of SpecRate
MaxGateQueries == 1  \* free-text queries handled in a run of SpecGate
MaxSearches == 1     \* searches and broadcasts that may be suspended at once, outside SpecCounters
MaxSends == 1        \* other handlers that may be suspended at a send at once
MaxThreads == 2      \* searches that may be in their worker threads at once
MaxRoundTrip == 12   \* post ids whose callback data is parsed back: -MaxRoundTrip..MaxRoundTrip
StartTime == 5000    \* now at process start, ms (time.time() is far above 0)
MaxRetries == 5      \* max_retries ranges over 0..MaxRetries

\* --------------------------------------------------------------- constants
RATE_LIMIT_SECONDS == 1
RATE_LIMIT_MS == RATE_LIMIT_SECONDS * 1000
AdminId == 1
ADMIN_IDS == {AdminId}
UserIds == {1, 2}
NoUser == 0          \* from_user is None
\* str(LIBRARY_CHANNEL_ID) and the id of some other chat
LIBRARY_CHANNEL_ID == <<"-","1","0","0","3","1","3","8","9","4","9","0","1","5">>
OTHER_CHAT_ID == <<"-","1","0","0","1">>
ChatIds == {LIBRARY_CHANNEL_ID, OTHER_CHAT_ID}
PostIds == 0..MaxPostId
UNKNOWN_MOVIE == <<"U","n","k","n","o","w","n"," ","M","o","v","i","e">>

\* ----------------------------------------------------------- text helpers
\* The characters str.strip() removes: those for which str.isspace() holds. A character that has no escape here is written as Python writes it.
Whitespace ==
  { " ", "\t", "\n", "\r", "\f", "\\x0b", "\\x1c", "\\x1d", "\\x1e", "\\x1f", "\\x85",
    "\\xa0", "\\u1680", "\\u2000", "\\u2001", "\\u2002", "\\u2003", "\\u2004", "\\u2005",
    "\\u2006", "\\u2007", "\\u2008", "\\u2009", "\\u200a", "\\u2028", "\\u2029",
    "\\u202f", "\\u205f", "\\u3000" }

\* Of these, int() does not accept the four separators U+001C .. U+001F.
IntWhitespace == Whitespace \ {"\\x1c", "\\x1d", "\\x1e", "\\x1f"}

\* s without its leading, and without its trailing, characters of the set W
RECURSIVE LStripOf(_, _)
LStripOf(s, W) == IF s # <<>> /\ Head(s) \in W THEN LStripOf(Tail(s), W) ELSE s
RECURSIVE RStripOf(_, _)
RStripOf(s, W) ==
  IF s # <<>> /\ s[Len(s)] \in W THEN RStripOf(SubSeq(s, 1, Len(s) - 1), W) ELSE s

LStrip(s) == LStripOf(s, Whitespace)
RStrip(s) == RStripOf(s, Whitespace)

\* str.strip()
Strip(s) == RStrip(LStrip(s))

\* Position of the first occurrence of the character c in s, or 0.
RECURSIVE FindFrom(_, _, _)
FindFrom(s, c, i) ==
  IF i > Len(s) THEN 0 ELSE IF s[i] = c THEN i ELSE FindFrom(s, c, i + 1)

\* s.split(c): the list of fields of s separated by the character c.
RECURSIVE Split(_, _)
Split(s, c) ==
  LET i == FindFrom(s, c, 1)
  IN IF i = 0 THEN <<s>>
     ELSE <<SubSeq(s, 1, i - 1)>> \o Split(SubSeq(s, i + 1, Len(s)), c)

\* s.startswith(p)
StartsWith(s, p) == Len(s) >= Len(p) /\ SubSeq(s, 1, Len(p)) = p

DigitChars == <<"0","1","2","3","4","5","6","7","8","9">>
\* The decimal digits int() reads: the characters str.isdecimal accepts, 660
\* in 66 rows of ten (Unicode 14.0.0), each row the digits 0 to 9 of one
\* script in the order of their values.
DigitRows ==
  << DigitChars,
     <<"\\u0660","\\u0661","\\u0662","\\u0663","\\u0664","\\u0665","\\u0666","\\u0667","\\u0668","\\u0669">>,
     <<"\\u06f0","\\u06f1","\\u06f2","\\u06f3","\\u06f4","\\u06f5","\\u06f6","\\u06f7","\\u06f8","\\u06f9">>,
     <<"\\u07c0","\\u07c1","\\u07c2","\\u07c3","\\u07c4","\\u07c5","\\u07c6","\\u07c7","\\u07c8","\\u07c9">>,
     <<"\\u0966","\\u0967","\\u0968","\\u0969","\\u096a","\\u096b","\\u096c","\\u096d","\\u096e","\\u096f">>,
     <<"\\u09e6","\\u09e7","\\u09e8","\\u09e9","\\u09ea","\\u09eb","\\u09ec","\\u09ed","\\u09ee","\\u09ef">>,
     <<"\\u0a66","\\u0a67","\\u0a68","\\u0a69","\\u0a6a","\\u0a6b","\\u0a6c","\\u0a6d","\\u0a6e","\\u0a6f">>,
     <<"\\u0ae6","\\u0ae7","\\u0ae8","\\u0ae9","\\u0aea","\\u0aeb","\\u0aec","\\u0aed","\\u0aee","\\u0aef">>,
     <<"\\u0b66","\\u0b67","\\u0b68","\\u0b69","\\u0b6a","\\u0b6b","\\u0b6c","\\u0b6d","\\u0b6e","\\u0b6f">>,
     <<"\\u0be6","\\u0be7","\\u0be8","\\u0be9","\\u0bea","\\u0beb","\\u0bec","\\u0bed","\\u0bee","\\u0bef">>,
     <<"\\u0c66","\\u0c67","\\u0c68","\\u0c69","\\u0c6a","\\u0c6b","\\u0c6c","\\u0c6d","\\u0c6e","\\u0c6f">>,
     <<"\\u0ce6","\\u0ce7","\\u0ce8","\\u0ce9","\\u0cea","\\u0ceb","\\u0cec","\\u0ced","\\u0cee","\\u0cef">>,
     <<"\\u0d66","\\u0d67","\\u0d68","\\u0d69","\\u0d6a","\\u0d6b","\\u0d6c","\\u0d6d","\\u0d6e","\\u0d6f">>,
     <<"\\u0de6","\\u0de7","\\u0de8","\\u0de9","\\u0dea","\\u0deb","\\u0dec","\\u0ded","\\u0dee","\\u0def">>,
     <<"\\u0e50","\\u0e51","\\u0e52","\\u0e53","\\u0e54","\\u0e55","\\u0e56","\\u0e57","\\u0e58","\\u0e59">>,
     <<"\\u0ed0","\\u0ed1","\\u0ed2","\\u0ed3","\\u0ed4","\\u0ed5","\\u0ed6","\\u0ed7","\\u0ed8","\\u0ed9">>,
     <<"\\u0f20","\\u0f21","\\u0f22","\\u0f23","\\u0f24","\\u0f25","\\u0f26","\\u0f27","\\u0f28","\\u0f29">>,
     <<"\\u1040","\\u1041","\\u1042","\\u1043","\\u1044","\\u1045","\\u1046","\\u1047","\\u1048","\\u1049">>,
     <<"\\u1090","\\u1091","\\u1092","\\u1093","\\u1094","\\u1095","\\u1096","\\u1097","\\u1098","\\u1099">>,
     <<"\\u17e0","\\u17e1","\\u17e2","\\u17e3","\\u17e4","\\u17e5","\\u17e6","\\u17e7","\\u17e8","\\u17e9">>,
     <<"\\u1810","\\u1811","\\u1812","\\u1813","\\u1814","\\u1815","\\u1816","\\u1817","\\u1818","\\u1819">>,
     <<"\\u1946","\\u1947","\\u1948","\\u1949","\\u194a","\\u194b","\\u194c","\\u194d","\\u194e","\\u194f">>,
     <<"\\u19d0","\\u19d1","\\u19d2","\\u19d3","\\u19d4","\\u19d5","\\u19d6","\\u19d7","\\u19d8","\\u19d9">>,
     <<"\\u1a80","\\u1a81","\\u1a82","\\u1a83","\\u1a84","\\u1a85","\\u1a86","\\u1a87","\\u1a88","\\u1a89">>,
     <<"\\u1a90","\\u1a91","\\u1a92","\\u1a93","\\u1a94","\\u1a95","\\u1a96","\\u1a97","\\u1a98","\\u1a99">>,
     <<"\\u1b50","\\u1b51","\\u1b52","\\u1b53","\\u1b54","\\u1b55","\\u1b56","\\u1b57","\\u1b58","\\u1b59">>,
     <<"\\u1bb0","\\u1bb1","\\u1bb2","\\u1bb3","\\u1bb4","\\u1bb5","\\u1bb6","\\u1bb7","\\u1bb8","\\u1bb9">>,
     <<"\\u1c40","\\u1c41","\\u1c42","\\u1c43","\\u1c44","\\u1c45","\\u1c46","\\u1c47","\\u1c48","\\u1c49">>,
     <<"\\u1c50","\\u1c51","\\u1c52","\\u1c53","\\u1c54","\\u1c55","\\u1c56","\\u1c57","\\u1c58","\\u1c59">>,
     <<"\\ua620","\\ua621","\\ua622","\\ua623","\\ua624","\\ua625","\\ua626","\\ua627","\\ua628","\\ua629">>,
     <<"\\ua8d0","\\ua8d1","\\ua8d2","\\ua8d3","\\ua8d4","\\ua8d5","\\ua8d6","\\ua8d7","\\ua8d8","\\ua8d9">>,
     <<"\\ua900","\\ua901","\\ua902","\\ua903","\\ua904","\\ua905","\\ua906","\\ua907","\\ua908","\\ua909">>,
     <<"\\ua9d0","\\ua9d1","\\ua9d2","\\ua9d3","\\ua9d4","\\ua9d5","\\ua9d6","\\ua9d7","\\ua9d8","\\ua9d9">>,
     <<"\\ua9f0","\\ua9f1","\\ua9f2","\\ua9f3","\\ua9f4","\\ua9f5","\\ua9f6","\\ua9f7","\\ua9f8","\\ua9f9">>,
     <<"\\uaa50","\\uaa51","\\uaa52","\\uaa53","\\uaa54","\\uaa55","\\uaa56","\\uaa57","\\uaa58","\\uaa59">>,
     <<"\\uabf0","\\uabf1","\\uabf2","\\uabf3","\\uabf4","\\uabf5","\\uabf6","\\uabf7","\\uabf8","\\uabf9">>,
     <<"\\uff10","\\uff11","\\uff12","\\uff13","\\uff14","\\uff15","\\uff16","\\uff17","\\uff18","\\uff19">>,
     <<"\\U000104a0","\\U000104a1","\\U000104a2","\\U000104a3","\\U000104a4","\\U000104a5","\\U000104a6","\\U000104a7","\\U000104a8","\\U000104a9">>,
     <<"\\U00010d30","\\U00010d31","\\U00010d32","\\U00010d33","\\U00010d34","\\U00010d35","\\U00010d36","\\U00010d37","\\U00010d38","\\U00010d39">>,
     <<"\\U00011066","\\U00011067","\\U00011068","\\U00011069","\\U0001106a","\\U0001106b","\\U0001106c","\\U0001106d","\\U0001106e","\\U0001106f">>,
     <<"\\U000110f0","\\U000110f1","\\U000110f2","\\U000110f3","\\U000110f4","\\U000110f5","\\U000110f6","\\U000110f7","\\U000110f8","\\U000110f9">>,
     <<"\\U00011136","\\U00011137","\\U00011138","\\U00011139","\\U0001113a","\\U0001113b","\\U0001113c","\\U0001113d","\\U0001113e","\\U0001113f">>,
     <<"\\U000111d0","\\U000111d1","\\U000111d2","\\U000111d3","\\U000111d4","\\U000111d5","\\U000111d6","\\U000111d7","\\U000111d8","\\U000111d9">>,
     <<"\\U000112f0","\\U000112f1","\\U000112f2","\\U000112f3","\\U000112f4","\\U000112f5","\\U000112f6","\\U000112f7","\\U000112f8","\\U000112f9">>,
     <<"\\U00011450","\\U00011451","\\U00011452","\\U00011453","\\U00011454","\\U00011455","\\U00011456","\\U00011457","\\U00011458","\\U00011459">>,
     <<"\\U000114d0","\\U000114d1","\\U000114d2","\\U000114d3","\\U000114d4","\\U000114d5","\\U000114d6","\\U000114d7","\\U000114d8","\\U000114d9">>,
     <<"\\U00011650","\\U00011651","\\U00011652","\\U00011653","\\U00011654","\\U00011655","\\U00011656","\\U00011657","\\U00011658","\\U00011659">>,
     <<"\\U000116c0","\\U000116c1","\\U000116c2","\\U000116c3","\\U000116c4","\\U000116c5","\\U000116c6","\\U000116c7","\\U000116c8","\\U000116c9">>,
     <<"\\U00011730","\\U00011731","\\U00011732","\\U00011733","\\U00011734","\\U00011735","\\U00011736","\\U00011737","\\U00011738","\\U00011739">>,
     <<"\\U000118e0","\\U000118e1","\\U000118e2","\\U000118e3","\\U000118e4","\\U000118e5","\\U000118e6","\\U000118e7","\\U000118e8","\\U000118e9">>,
     <<"\\U00011950","\\U00011951","\\U00011952","\\U00011953","\\U00011954","\\U00011955","\\U00011956","\\U00011957","\\U00011958","\\U00011959">>,
     <<"\\U00011c50","\\U00011c51","\\U00011c52","\\U00011c53","\\U00011c54","\\U00011c55","\\U00011c56","\\U00011c57","\\U00011c58","\\U00011c59">>,
     <<"\\U00011d50","\\U00011d51","\\U00011d52","\\U00011d53","\\U00011d54","\\U00011d55","\\U00011d56","\\U00011d57","\\U00011d58","\\U00011d59">>,
     <<"\\U00011da0","\\U00011da1","\\U00011da2","\\U00011da3","\\U00011da4","\\U00011da5","\\U00011da6","\\U00011da7","\\U00011da8","\\U00011da9">>,
     <<"\\U00016a60","\\U00016a61","\\U00016a62","\\U00016a63","\\U00016a64","\\U00016a65","\\U00016a66","\\U00016a67","\\U00016a68","\\U00016a69">>,
     <<"\\U00016ac0","\\U00016ac1","\\U00016ac2","\\U00016ac3","\\U00016ac4","\\U00016ac5","\\U00016ac6","\\U00016ac7","\\U00016ac8","\\U00016ac9">>,
     <<"\\U00016b50","\\U00016b51","\\U00016b52","\\U00016b53","\\U00016b54","\\U00016b55","\\U00016b56","\\U00016b57","\\U00016b58","\\U00016b59">>,
     <<"\\U0001d7ce","\\U0001d7cf","\\U0001d7d0","\\U0001d7d1","\\U0001d7d2","\\U0001d7d3","\\U0001d7d4","\\U0001d7d5","\\U0001d7d6","\\U0001d7d7">>,
     <<"\\U0001d7d8","\\U0001d7d9","\\U0001d7da","\\U0001d7db","\\U0001d7dc","\\U0001d7dd","\\U0001d7de","\\U0001d7df","\\U0001d7e0","\\U0001d7e1">>,
     <<"\\U0001d7e2","\\U0001d7e3","\\U0001d7e4","\\U0001d7e5","\\U0001d7e6","\\U0001d7e7","\\U0001d7e8","\\U0001d7e9","\\U0001d7ea","\\U0001d7eb">>,
     <<"\\U0001d7ec","\\U0001d7ed","\\U0001d7ee","\\U0001d7ef","\\U0001d7f0","\\U0001d7f1","\\U0001d7f2","\\U0001d7f3","\\U0001d7f4","\\U0001d7f5">>,
     <<"\\U0001d7f6","\\U0001d7f7","\\U0001d7f8","\\U0001d7f9","\\U0001d7fa","\\U0001d7fb","\\U0001d7fc","\\U0001d7fd","\\U0001d7fe","\\U0001d7ff">>,
     <<"\\U0001e140","\\U0001e141","\\U0001e142","\\U0001e143","\\U0001e144","\\U0001e145","\\U0001e146","\\U0001e147","\\U0001e148","\\U0001e149">>,
     <<"\\U0001e2f0","\\U0001e2f1","\\U0001e2f2","\\U0001e2f3","\\U0001e2f4","\\U0001e2f5","\\U0001e2f6","\\U0001e2f7","\\U0001e2f8","\\U0001e2f9">>,
     <<"\\U0001e950","\\U0001e951","\\U0001e952","\\U0001e953","\\U0001e954","\\U0001e955","\\U0001e956","\\U0001e957","\\U0001e958","\\U0001e959">>,
     <<"\\U0001fbf0","\\U0001fbf1","\\U0001fbf2","\\U0001fbf3","\\U0001fbf4","\\U0001fbf5","\\U0001fbf6","\\U0001fbf7","\\U0001fbf8","\\U0001fbf9">> >>
DigitSet == {DigitRows[r][i] : r \in DOMAIN DigitRows, i \in 1..10}
DigitVal(c) == (CHOOSE i \in 1..10 : \E r \in DOMAIN DigitRows : DigitRows[r][i] = c) - 1

\* str(n) for an integer n
RECURSIVE NatToStr(_)
NatToStr(n) ==
  IF n < 10 THEN <<DigitChars[n + 1]>> ELSE NatToStr(n \div 10) \o <<DigitChars[(n % 10) + 1]>>
IntToStr(n) == IF n < 0 THEN <<"-">> \o NatToStr(0 - n) ELSE NatToStr(n)

RECURSIVE DigitsToNat(_)
DigitsToNat(s) ==
  IF s = <<>> THEN 0 ELSE 10 * DigitsToNat(SubSeq(s, 1, Len(s) - 1)) + DigitVal(s[Len(s)])

\* Digits, with single underscores allowed between two of them
AllDigits(s) ==
  /\ s # <<>>
  /\ \A i \in 1..Len(s) : s[i] \in DigitSet \cup {"_"}
  /\ s[1] # "_" /\ s[Len(s)] # "_"
  /\ \A i \in 1..(Len(s) - 1) : ~(s[i] = "_" /\ s[i + 1] = "_")
Ungrouped(s) == SelectSeq(s, LAMBDA c : c # "_")

\* int(s): surrounding whitespace is ignored, one optional sign, then decimal
\* digits, which single underscores may group. IsInt says whether int(s)
\* returns; otherwise it raises ValueError.
IntStrip(s) == RStripOf(LStripOf(s, IntWhitespace), IntWhitespace)
IntBody(s) ==
  IF IntStrip(s) # <<>> /\ Head(IntStrip(s)) \in {"+", "-"} THEN Tail(IntStrip(s))
  ELSE IntStrip(s)
IsInt(s) == AllDigits(IntBody(s))
ParseIntOneDigit(s) == DigitVal(Head(IntBody(s)))
ParseInt(s) ==
  IF IntStrip(s) # <<>> /\ Head(IntStrip(s)) = "-" THEN 0 - DigitsToNat(Ungrouped(IntBody(s)))
  ELSE DigitsToNat(Ungrouped(IntBody(s)))

\* dict helpers: a dict is a function whose DOMAIN is its key set
DictSet(d, k, v) == [x \in (DOMAIN d) \cup {k} |-> IF x = k THEN v ELSE d[x]]
DictGet(d, k, default) == IF k \in DOMAIN d THEN d[k] ELSE default
EmptyDict == [x \in {} |-> 0]


\* ------------------------------------------------------------------ state
VARIABLES
  engine,          \* module global engine is set
  SessionLocal,    \* module global SessionLocal is set
  algolia_index,   \* module global algolia_index is set
  boot,            \* the call of initialize_db_and_algolia_with_retry at import
  movies,          \* rows of table movies, in insertion order
  nextId,          \* next value of the movies.id sequence
  index,           \* documents of the search index
  failedSaves,     \* ids of rows whose run failed after the commit
  workers,         \* bag of ingestion runs in flight in worker threads
  returned,        \* post ids for which some ingestion run has returned
  lastRun,         \* the ingestion run that returned last
  now,             \* time.time(), ms
  verified_users,
  users_database,  \* key set of the dict users_database
  user_sessions,
  bot_stats,
  tasks,           \* bag of the handler invocations suspended at an await
  nQueries,        \* free-text queries handled so far
  acceptedAt,      \* per user, arrival time of the last query check_rate_limit accepted
  queryAt,         \* per user, arrival time of the last query that reached check_rate_limit
  joined,          \* users that have sent the 'joined' callback
  next_message_id, \* id the chat gives to the next result listing
  listings,        \* the result listings that are in the chats: recipient and message id
  lastEvent,       \* the handler invocation that took the last step of the event loop
  outbox           \* the send attempts that invocation has made so far (a
                   \* broadcast: in its last turn)

storeVars == <<movies, nextId, index, failedSaves, workers, returned, lastRun>>
chatVars == <<now, verified_users, users_database, user_sessions, bot_stats,
              tasks, nQueries, acceptedAt, queryAt, joined, next_message_id, listings>>
initVars == <<engine, SessionLocal, algolia_index, boot>>
vars == <<engine, SessionLocal, algolia_index, boot, movies, nextId, index, failedSaves,
          workers, returned, lastRun, now, verified_users, users_database, user_sessions,
          bot_stats, tasks, nQueries, acceptedAt, queryAt, joined, next_message_id,
          listings, lastEvent, outbox>>

\* ----------------------------------------------------------- construction
\* Outcomes of initialize_db_and_algolia_with_retry: engine is assigned before
\* SessionLocal, SessionLocal before algolia_index.
InitOutcomes ==
  { <<FALSE, FALSE, FALSE>>, <<TRUE, FALSE, FALSE>>,
    <<TRUE, TRUE, FALSE>>, <<TRUE, TRUE, TRUE>> }

\* The stores outlive the process: they are empty at start, or hold what an
\* earlier run ingested.
InitialCatalogs == { <<>>, <<[id |-> 1, title |-> <<"A">>, post_id |-> 1]>> }

NoRun == [post_id |-> 0, ret |-> FALSE, second |-> FALSE]

NoEvent == [h |-> "none", user |-> NoUser, escaped |-> FALSE, done |-> TRUE]
Never == 0 - 1       \* no query yet

\* The state of the module globals other than the connection handles.
InitGlobalsFrom(Catalogs) ==
  /\ \E c \in Catalogs :
       /\ movies = c
       /\ nextId = Len(c) + 1
       /\ index = {[objectID |-> IntToStr(c[i].id), title |-> c[i].title,
                    post_id |-> c[i].post_id] : i \in 1..Len(c)}
  /\ failedSaves = {}
  /\ workers = EmptyBag
  /\ returned = {}
  /\ lastRun = NoRun
  /\ now = StartTime
  /\ verified_users = {}
  /\ users_database = {}
  /\ user_sessions = EmptyDict
  /\ bot_stats = [total_searches |-> 0, algolia_searches |-> 0]
  /\ tasks = EmptyBag
  /\ nQueries = 0
  /\ acceptedAt = [u \in UserIds |-> Never]
  /\ queryAt = [u \in UserIds |-> Never]
  /\ joined = {}
  /\ next_message_id = 1
  /\ listings = {}
  /\ lastEvent = NoEvent
  /\ outbox = <<>>
InitGlobals == InitGlobalsFrom(InitialCatalogs)

\* The frame of initialize_db_and_algolia_with_retry. attempt is the loop
\* variable; tried and failed count the attempts made and those that raised,
\* slept adds up the delays passed to time.sleep; checked and reached record
\* that some attempt's SELECT 1 check, and some attempt's test search, has
\* succeeded. Once the module has gone past the call the frame is gone, and
\* what is kept of it is what the call has done.
BootFrame(pc, m, b, attempt, tried, failed, slept, ret) ==
  [pc |-> pc, max_retries |-> m, base_delay |-> b, attempt |-> attempt,
   tried |-> tried, failed |-> failed, slept |-> slept, ret |-> ret,
   checked |-> FALSE, reached |-> FALSE]
BootIdle == BootFrame("idle", 0, 0, 0, 0, 0, 0, FALSE)
BootRunning == BootFrame("running", 0, 0, 0, 0, 0, 0, FALSE)

Init ==
  /\ \E o \in InitOutcomes :
       /\ engine = o[1]
       /\ SessionLocal = o[2]
       /\ algolia_index = o[3]
  /\ boot = BootRunning
  /\ InitGlobals

\* ---------------------------------------------------------------- start-up
\* Where an attempt stops: create_engine (or the use of DATABASE_URL) raises,
\* create_all raises, the SELECT 1 check raises, the Algolia client or
\* init_index raises, or the attempt reaches 'return True', with the test
\* search failing (which is logged and nothing more) or succeeding.
AttemptOutcomes ==
  {"engine_error", "create_all_error", "db_check_error", "algolia_error", "search_warning", "ok"}
\* The outcomes in which the attempt returns True
Succeeds(outcome) == outcome \in {"search_warning", "ok"}
BaseDelays == {2}

RECURSIVE Pow2(_)
Pow2(n) == IF n = 0 THEN 1 ELSE 2 * Pow2(n - 1)

\* delay = base_delay * (2 ** attempt)
BackoffLinear(base_delay, attempt) == base_delay * (attempt + 1)
Backoff(base_delay, attempt) == base_delay * Pow2(attempt)

\* The else branch of 'if attempt < max_retries - 1'
LastAttemptEarly(attempt, max_retries) == ~(attempt < max_retries - 2)
LastAttempt(attempt, max_retries) == ~(attempt < max_retries - 1)

\* range(max_retries) yields attempt
InRange(attempt, max_retries) == 0 <= attempt /\ attempt < max_retries

\* The module before the call: nothing is initialised.
InitBoot ==
  /\ engine = FALSE
  /\ SessionLocal = FALSE
  /\ algolia_index = FALSE
  /\ boot = BootIdle
  /\ InitGlobals

\* The call, and the first turn of the for loop (or 'return False' after it).
BootCall(m, b) ==
  /\ boot.pc = "idle"
  /\ boot' = IF InRange(0, m)
             THEN BootFrame("attempt", m, b, 0, 0, 0, 0, FALSE)
             ELSE BootFrame("returned", m, b, 0, 0, 0, 0, FALSE)
  /\ UNCHANGED <<engine, SessionLocal, algolia_index>>
  /\ UNCHANGED storeVars
  /\ UNCHANGED chatVars
  /\ UNCHANGED <<lastEvent, outbox>>

\* One pass through the try block and, if it raised, the except block up to
\* time.sleep or 'return False'. The globals are assigned in the order engine,
\* SessionLocal, algolia_index, and keep what an earlier attempt assigned.
BootAttempt(outcome) ==
  /\ boot.pc = "attempt"
  /\ engine' = (engine \/ outcome # "engine_error")
  /\ SessionLocal' = (SessionLocal \/ outcome \in {"db_check_error", "algolia_error"}
                                     \/ Succeeds(outcome))
  /\ algolia_index' = (algolia_index \/ Succeeds(outcome))
  /\ LET seen == [boot EXCEPT !.tried = @ + 1,
                              !.checked = @ \/ outcome = "algolia_error" \/ Succeeds(outcome),
                              !.reached = @ \/ outcome = "ok"]
     IN boot' = IF Succeeds(outcome)
                THEN [seen EXCEPT !.pc = "returned", !.ret = TRUE]
                ELSE IF LastAttempt(boot.attempt, boot.max_retries)
                THEN [seen EXCEPT !.pc = "returned", !.failed = @ + 1, !.ret = FALSE]
                ELSE [seen EXCEPT !.pc = "sleep", !.failed = @ + 1]
  /\ UNCHANGED storeVars
  /\ UNCHANGED chatVars
  /\ UNCHANGED <<lastEvent, outbox>>

\* time.sleep(delay) returns and the for loop takes its next value, or ends
\* and the function returns False.
BootSleep ==
  /\ boot.pc = "sleep"
  /\ boot' = IF InRange(boot.attempt + 1, boot.max_retries)
             THEN [boot EXCEPT !.pc = "attempt", !.attempt = @ + 1,
                               !.slept = @ + Backoff(boot.base_delay, boot.attempt)]
             ELSE [boot EXCEPT !.pc = "returned", !.ret = FALSE,
                               !.slept = @ + Backoff(boot.base_delay, boot.attempt)]
  /\ UNCHANGED <<engine, SessionLocal, algolia_index>>
  /\ UNCHANGED storeVars
  /\ UNCHANGED chatVars
  /\ UNCHANGED <<lastEvent, outbox>>

\* 'if not initialize_db_and_algolia_with_retry(): logger.warning(...)': the
\* module goes on whatever the result was.
BootContinue ==
  /\ boot.pc = "returned"
  /\ boot' = [BootRunning EXCEPT !.ret = boot.ret, !.checked = boot.checked,
                                 !.reached = boot.reached]
  /\ UNCHANGED <<engine, SessionLocal, algolia_index>>
  /\ UNCHANGED storeVars
  /\ UNCHANGED chatVars
  /\ UNCHANGED <<lastEvent, outbox>>

NextBoot ==
  \/ \E m \in 0..MaxRetries, b \in BaseDelays : BootCall(m, b)
  \/ \E outcome \in AttemptOutcomes : BootAttempt(outcome)
  \/ BootSleep
  \/ BootContinue
\* The call runs in the importing thread and time.sleep returns, so every
\* enabled step of it is eventually taken.
SpecBoot == InitBoot /\ [][NextBoot]_vars /\ WF_vars(NextBoot)

\* -------------------------------------------------------------- ingestion
Captions == { <<>>, <<"A">>, <<" ", "B", "\n", "H">>, <<" ", "\n", "B">>, UNKNOWN_MOVIE,
              <<"\r">>, <<"A", "\r", "\n", "B">> }
DbOutcomes == {"ok", "commit_error", "refresh_error"}

\* caption.split('\n')[0].strip() if caption else "Unknown Movie"
DeriveTitleWholeCaption(caption) ==
  IF caption # <<>> THEN Strip(caption) ELSE UNKNOWN_MOVIE
DeriveTitle(caption) ==
  IF caption # <<>> THEN Strip(Split(caption, "\n")[1]) ELSE UNKNOWN_MOVIE

\* db_session.query(Movie).filter(Movie.post_id == post_id).first() is not None
ExistingMovieNever(rows, post_id) == FALSE
ExistingMovie(rows, post_id) == \E i \in 1..Len(rows) : rows[i].post_id = post_id

\* The unique constraint on movies.post_id rejects the insert.
UniqueViolationNever(rows, post_id) == FALSE
UniqueViolation(rows, post_id) == \E i \in 1..Len(rows) : rows[i].post_id = post_id

\* str(new_movie.id)
ObjectIDOffByOne(id) == IntToStr(id + 1)
ObjectID(id) == IntToStr(id)

\* The body handed to save_object.
SearchDocumentNoTitle(id, title, post_id) ==
  [objectID |-> ObjectID(id), title |-> <<>>, post_id |-> post_id]
SearchDocument(id, title, post_id) ==
  [objectID |-> ObjectID(id), title |-> Strip(title), post_id |-> post_id]

\* save_object: insert, or replace the document with the same objectID
SaveObject(idx, doc) == {d \in idx : d.objectID # doc.objectID} \cup {doc}

\* db_session.rollback() in the except block, reached after the commit of
\* the row with this id: the transaction is over, nothing is undone.
RollbackUndoesCommit(rows, id) == SelectSeq(rows, LAMBDA x : x.id # id)
Rollback(rows, id) == rows

RowsWithPost(p) == {i \in 1..Len(movies) : movies[i].post_id = p}
DocsWithPost(p) == {d \in index : d.post_id = p}

InFlight == BagToSet(workers)
Replace(r, r2) == (workers (-) SetToBag({r})) (+) SetToBag({r2})

\* The run r returns ret: it leaves the worker pool and is recorded as the
\* last run.
Return(r, ret) ==
  /\ workers' = workers (-) SetToBag({r})
  /\ returned' = returned \cup {r.post_id}
  /\ lastRun' = [post_id |-> r.post_id, ret |-> ret, second |-> r.second]

\* handle_channel_post returns before the worker handoff.
PostSkippedAnyChat(chat, attachment, caption, mid) ==
  \/ ~attachment
  \/ DeriveTitle(caption) = <<>>
  \/ DeriveTitle(caption) = UNKNOWN_MOVIE
  \/ mid = 0
PostSkipped(chat, attachment, caption, mid) ==
  \/ chat # LIBRARY_CHANNEL_ID
  \/ ~attachment
  \/ DeriveTitle(caption) = <<>>
  \/ DeriveTitle(caption) = UNKNOWN_MOVIE
  \/ mid = 0

\* handle_channel_post up to asyncio.to_thread. second: a run for the same
\* post id had already returned when this one was handed off. The handler
\* sends nothing, and its except block lets no exception out.
handle_channel_post(chat, attachment, caption, mid) ==
  /\ IF PostSkipped(chat, attachment, caption, mid)
     THEN UNCHANGED workers
     ELSE /\ BagCardinality(workers) < MaxWorkers
          /\ workers' = workers (+) SetToBag({
               [pc |-> "query", title |-> DeriveTitle(caption), post_id |-> mid,
                id |-> 0, second |-> mid \in returned]})
  /\ UNCHANGED <<movies, nextId, index, failedSaves, returned, lastRun>>
  /\ UNCHANGED chatVars
  /\ UNCHANGED initVars
  /\ lastEvent' = [h |-> "handle_channel_post", user |-> NoUser, escaped |-> FALSE,
                    done |-> TRUE]
  /\ outbox' = <<>>

\* sync_add_movie_to_db_and_algolia: the initialisation guard and the
\* duplicate query. dbOk = FALSE: the query raises.
WorkerQuery(r, dbOk) ==
  /\ r.pc = "query"
  /\ IF ~algolia_index \/ ~SessionLocal
     THEN Return(r, FALSE)
     ELSE IF ~dbOk
     THEN Return(r, FALSE)
     ELSE IF ExistingMovie(movies, r.post_id)
     THEN Return(r, FALSE)
     ELSE /\ workers' = Replace(r, [r EXCEPT !.pc = "insert"])
          /\ UNCHANGED <<returned, lastRun>>
  /\ UNCHANGED <<movies, nextId, index, failedSaves>>
  /\ UNCHANGED chatVars
  /\ UNCHANGED initVars
  /\ UNCHANGED <<lastEvent, outbox>>

\* add, commit, refresh. commit_error: the commit raises for a reason other
\* than the constraint; refresh_error: the commit succeeds and refresh raises.
\* An insert the constraint rejects still consumes a value of the id sequence.
WorkerInsert(r, outcome) ==
  /\ r.pc = "insert"
  /\ IF outcome = "commit_error"
     THEN /\ Return(r, FALSE)
          /\ UNCHANGED <<movies, nextId, failedSaves>>
     ELSE IF UniqueViolation(movies, r.post_id)
     THEN /\ Return(r, FALSE)
          /\ nextId' = nextId + 1
          /\ UNCHANGED <<movies, failedSaves>>
     ELSE LET committed == Append(movies, [id |-> nextId, title |-> Strip(r.title),
                                           post_id |-> r.post_id])
          IN /\ nextId' = nextId + 1
             /\ IF outcome = "refresh_error"
                THEN /\ movies' = Rollback(committed, nextId)
                     /\ Return(r, FALSE)
                     /\ failedSaves' = failedSaves \cup {nextId}
                ELSE /\ movies' = committed
                     /\ workers' = Replace(r, [r EXCEPT !.pc = "save", !.id = nextId])
                     /\ UNCHANGED <<returned, lastRun, failedSaves>>
  /\ UNCHANGED index
  /\ UNCHANGED chatVars
  /\ UNCHANGED initVars
  /\ UNCHANGED <<lastEvent, outbox>>

\* algolia_index.save_object(...) and the return. ok = FALSE: it raises, and
\* the rollback after the commit undoes nothing.
WorkerSave(r, ok) ==
  /\ r.pc = "save"
  /\ IF ok
     THEN /\ index' = SaveObject(index, SearchDocument(r.id, r.title, r.post_id))
          /\ Return(r, TRUE)
          /\ UNCHANGED <<failedSaves, movies>>
     ELSE /\ failedSaves' = failedSaves \cup {r.id}
          /\ movies' = Rollback(movies, r.id)
          /\ Return(r, FALSE)
          /\ UNCHANGED index
  /\ UNCHANGED nextId
  /\ UNCHANGED chatVars
  /\ UNCHANGED initVars
  /\ UNCHANGED <<lastEvent, outbox>>

ChannelPost ==
  \E chat \in ChatIds, attachment \in BOOLEAN, caption \in Captions, mid \in PostIds :
    handle_channel_post(chat, attachment, caption, mid)
WorkerStep ==
  \E r \in InFlight :
    \/ \E dbOk \in BOOLEAN : WorkerQuery(r, dbOk)
    \/ \E outcome \in DbOutcomes : WorkerInsert(r, outcome)
    \/ \E ok \in BOOLEAN : WorkerSave(r, ok)

NextIngest == ChannelPost \/ WorkerStep
SpecIngest == Init /\ [][NextIngest]_vars

\* ---- the catalog with posts of more than one id, so that records of
\* different posts are stored side by side
CatalogPost ==
  \E chat \in ChatIds, attachment \in BOOLEAN, caption \in Captions,
     mid \in 1..MaxCatalogPostId :
    handle_channel_post(chat, attachment, caption, mid)
NextCatalog == CatalogPost \/ WorkerStep
SpecCatalog == Init /\ [][NextCatalog]_vars

\* ------------------------------------------------------------ chat side
Texts == { <<>>, <<"/", "s", "t", "a", "t", "s">>, <<" ", "i", "n", "c", "e", "p">> }
\* the texts that pass 'not message.text or message.text.startswith("/")'
QueryTexts == {x \in Texts : x # <<>> /\ ~StartsWith(x, <<"/">>)}
Datas == { <<"p","o","s","t","_","1">>, <<"p","o","s","t","_","x">>, <<"p","o","s","t","_">>,
           <<"p","o","s","t","_","1","_","x">>, <<"p","o","s","t","_","\r","1">>,
           <<"p","o","s","t","_","\\x1c","1">>, <<"p","o","s","t","_","\\u0967">>,
           <<"p","o","s","t","_","\\uff11">> }
Delays == {1, 999, 1000}
Senders == UserIds \cup {NoUser}
SEARCH_LIMIT == 20

\* s.replace(old, new): every occurrence, left to right
ReplaceNothing(s, old, new) == s
RECURSIVE ReplaceAll(_, _, _)
ReplaceAll(s, old, new) ==
  IF Len(s) < Len(old) \/ old = <<>> THEN s
  ELSE IF SubSeq(s, 1, Len(old)) = old
       THEN new \o ReplaceAll(SubSeq(s, Len(old) + 1, Len(s)), old, new)
       ELSE <<Head(s)>> \o ReplaceAll(Tail(s), old, new)

URL_PREFIX == <<"h","t","t","p","s",":","/","/","t",".","m","e","/","c","/">>

\* f"https://t.me/c/{str(LIBRARY_CHANNEL_ID).replace('-100', '')}/{post_id}"
PostUrl(channel, post_id) ==
  URL_PREFIX \o ReplaceAll(channel, <<"-","1","0","0">>, <<>>) \o <<"/">> \o IntToStr(post_id)

\* A send attempt and what the chat made of it. url: the variable part of
\* what is sent (a link, a count, the buttons of a listing).
Msg(to, kind, ok) == [to |-> to, kind |-> kind, ok |-> ok, url |-> <<>>]

\* A handler runs on the event loop from one await to the next. A step of a
\* handler is the code from the return of an await up to the next call it
\* awaits, together with what the chat does with that call; the handler is
\* suspended until a later step resumes it, and other handlers run in between.
\* A call that nothing follows, whatever its outcome, ends the handler in the
\* step that makes it.
\* Event: the invocation has made its last call to the chat (escaped: an
\* exception leaves it). Pending: it stays suspended and has calls to come.
Event(h, u, escaped) == [h |-> h, user |-> u, escaped |-> escaped, done |-> TRUE]
Pending(h, u) == [h |-> h, user |-> u, escaped |-> FALSE, done |-> FALSE]

\* A handler suspended at a send: where it resumes, the send attempts it has
\* made, and the URL it has built (send_movie_link).
Frame(h, u, pc, log, url) == [h |-> h, user |-> u, pc |-> pc, log |-> log, url |-> url]

\* user_id in ADMIN_IDS or user_id in verified_users
GateOpenAlways(u, verified) == TRUE
GateOpenVerifiedOnly(u, verified) == u \in verified
GateOpen(u, verified) == u \in ADMIN_IDS \/ u \in verified

\* The test of check_rate_limit that rejects the query arriving at time t.
RateLimitedInclusive(sessions, u, t) ==
  u \in DOMAIN sessions /\ t - DictGet(sessions[u], "last_action", 0) <= RATE_LIMIT_MS
RateLimitedByAnyUser(sessions, u, t) ==
  \E v \in DOMAIN sessions : t - DictGet(sessions[v], "last_action", 0) < RATE_LIMIT_MS
RateLimited(sessions, u, t) ==
  u \in DOMAIN sessions /\ t - DictGet(sessions[u], "last_action", 0) < RATE_LIMIT_MS

\* user_sessions[user_id][key] = value on the defaultdict(dict)
SessionSetNothing(sessions, u, key, value) == sessions
SessionSet(sessions, u, key, value) ==
  DictSet(sessions, u, DictSet(DictGet(sessions, u, EmptyDict), key, value))

\* verified_users.add(callback.from_user.id)
VerifyOnlyLast(verified, u) == {u}
VerifyEverybody(verified, u) == UserIds
Verify(verified, u) == verified \cup {u}

\* The message cmd_start answers with.
StartReplyWelcome(u, verified) ==
  IF u \in ADMIN_IDS THEN "admin_welcome" ELSE "welcome"
StartReply(u, verified) ==
  IF u \in ADMIN_IDS THEN "admin_welcome"
  ELSE IF u \notin verified THEN "join_prompt" ELSE "welcome"

\* The except block of a handler answers with the error message after the
\* send attempts the try block has made.
WithErrorAnswer(u, sent, failed, okErr) ==
  IF failed THEN sent \o <<Msg(u, "error", okErr)>> ELSE sent

\* cmd_start: no try block, a failing send leaves the handler.
cmd_start(u, ok) ==
  /\ IF u = NoUser
     THEN /\ UNCHANGED users_database
          /\ outbox' = <<>>
          /\ lastEvent' = Event("cmd_start", u, FALSE)
     ELSE /\ users_database' = users_database \cup {u}
          /\ outbox' = <<Msg(u, StartReply(u, verified_users), ok)>>
          /\ lastEvent' = Event("cmd_start", u, ~ok)
  /\ UNCHANGED <<now, verified_users, user_sessions, bot_stats, tasks, nQueries,
                 acceptedAt, queryAt, joined, next_message_id, listings>>
  /\ UNCHANGED storeVars
  /\ UNCHANGED initVars

\* process_joined up to its first await. hasMessage: callback.message is a
\* Message (the join prompt the button belongs to), which the handler edits
\* before it answers the callback; a callback whose message is None or
\* inaccessible is answered at once. ok: the outcome of the call the step
\* makes. No try block: a failing call leaves the handler.
process_joined(u, hasMessage, ok) ==
  /\ IF u # NoUser
     THEN /\ verified_users' = Verify(verified_users, u)
          /\ joined' = joined \cup {u}
     ELSE UNCHANGED <<verified_users, joined>>
  /\ IF hasMessage
     THEN /\ outbox' = <<Msg(u, "access_edit", ok)>>
          /\ IF ok
             THEN /\ tasks' = tasks (+) SetToBag({
                       Frame("process_joined", u, "ack", outbox', <<>>)})
                  /\ lastEvent' = Pending("process_joined", u)
             ELSE /\ UNCHANGED tasks
                  /\ lastEvent' = Event("process_joined", u, TRUE)
     ELSE /\ outbox' = <<Msg(u, "access_ack", ok)>>
          /\ lastEvent' = Event("process_joined", u, ~ok)
          /\ UNCHANGED tasks
  /\ UNCHANGED <<now, users_database, user_sessions, bot_stats, nQueries,
                 acceptedAt, queryAt, next_message_id, listings>>
  /\ UNCHANGED storeVars
  /\ UNCHANGED initVars

\* process_joined after edit_text: callback.answer, outside any try block.
process_joined_ack(t, okAck) ==
  /\ t.pc = "ack"
  /\ outbox' = t.log \o <<Msg(t.user, "access_ack", okAck)>>
  /\ lastEvent' = Event("process_joined", t.user, ~okAck)
  /\ tasks' = tasks (-) SetToBag({t})
  /\ UNCHANGED <<now, verified_users, users_database, user_sessions, bot_stats, nQueries,
                 acceptedAt, queryAt, joined, next_message_id, listings>>
  /\ UNCHANGED storeVars
  /\ UNCHANGED initVars

\* handle_search up to its first await. d: the time since the previous event;
\* ok: the outcome of the send this step makes. A message without from_user
\* raises AttributeError when the query is logged, and the except block
\* answers; a sender the gate stops gets the answer of cmd_start, and if that
\* send raises the handler resumes in its except block.
handle_search(u, text, d, ok) ==
  IF text = <<>> \/ StartsWith(text, <<"/">>)
  THEN /\ outbox' = <<>>
       /\ lastEvent' = Event("handle_search", u, FALSE)
       /\ UNCHANGED chatVars
       /\ UNCHANGED storeVars
       /\ UNCHANGED initVars
  ELSE /\ nQueries' = nQueries + 1
       /\ now' = now + d
       /\ IF u = NoUser
          THEN /\ outbox' = WithErrorAnswer(u, <<>>, TRUE, ok)
               /\ lastEvent' = Event("handle_search", u, ~ok)
               /\ UNCHANGED <<users_database, user_sessions, tasks, acceptedAt, queryAt>>
          ELSE IF ~GateOpen(u, verified_users)
          THEN \* await cmd_start(message)
               /\ users_database' = users_database \cup {u}
               /\ outbox' = <<Msg(u, StartReply(u, verified_users), ok)>>
               /\ IF ok
                  THEN /\ lastEvent' = Event("handle_search", u, FALSE)
                       /\ UNCHANGED tasks
                  ELSE /\ lastEvent' = Pending("handle_search", u)
                       /\ tasks' = tasks (+) SetToBag({
                            Frame("handle_search", u, "except", outbox', <<>>)})
               /\ UNCHANGED <<user_sessions, acceptedAt, queryAt>>
          ELSE /\ queryAt' = [queryAt EXCEPT ![u] = now']
               /\ outbox' = <<>>
               /\ UNCHANGED users_database
               /\ IF RateLimited(user_sessions, u, now')
                  THEN /\ lastEvent' = Event("handle_search", u, FALSE)
                       /\ UNCHANGED <<user_sessions, tasks, acceptedAt>>
                  ELSE /\ BagCardinality(tasks) < MaxThreads
                       /\ lastEvent' = Pending("handle_search", u)
                       /\ user_sessions' = SessionSet(user_sessions, u, "last_action", now')
                       /\ acceptedAt' = [acceptedAt EXCEPT ![u] = now']
                       /\ tasks' = tasks (+) SetToBag({
                            [user |-> u, pc |-> "read_total", tmp |-> 0, hits |-> <<>>,
                             msg |-> 0]})
       /\ UNCHANGED <<verified_users, bot_stats, joined, next_message_id, listings>>
       /\ UNCHANGED storeVars
       /\ UNCHANGED initVars

\* The except block of a handler that was suspended at a send which raised:
\* its answer is the last thing the handler does, and if this send raises
\* too the exception leaves the handler.
ExceptAnswer(t, okErr) ==
  /\ t.pc = "except"
  /\ outbox' = WithErrorAnswer(t.user, t.log, TRUE, okErr)
  /\ lastEvent' = Event(t.h, t.user, ~okErr)
  /\ tasks' = tasks (-) SetToBag({t})
  /\ UNCHANGED <<now, verified_users, users_database, user_sessions, bot_stats, nQueries,
                 acceptedAt, queryAt, joined, next_message_id, listings>>
  /\ UNCHANGED storeVars
  /\ UNCHANGED initVars

\* except Exception of handle_search
handle_search_except(t, okErr) ==
  t.pc = "except" /\ t.h \in {"handle_search", "handle_search_reply"} /\ ExceptAnswer(t, okErr)

\* ---- sync_algolia_fuzzy_search in its worker thread, then the rest of
\* ---- handle_search back on the event loop
Suspended == BagToSet(tasks)
Resume(t, t2) == (tasks (-) SetToBag({t})) (+) SetToBag({t2})
Finish(t) == tasks (-) SetToBag({t})

\* The lists without repetition of elements of S: what a search may return
\* of the documents of the index, in the order of the service's ranking.
Orderings(S) ==
  {q \in UNION {[1..n -> S] : n \in 0..Cardinality(S)} :
     \A i, j \in DOMAIN q : i # j => q[i] # q[j]}

\* results: the hits that carry a post_id, in the order of the hits
RECURSIVE Results(_)
Results(hits) ==
  IF hits = <<>> THEN <<>>
  ELSE (IF Head(hits).post_id # 0
        THEN <<[title |-> Head(hits).title, post_id |-> Head(hits).post_id]>>
        ELSE <<>>) \o Results(Tail(hits))

\* callback_data = f"post_{result['post_id']}"
CallbackData(post_id) == <<"p","o","s","t","_">> \o IntToStr(post_id)

\* keyboard_buttons: one row with one button for each result, in the order
\* of the results.
Keyboard(results) ==
  [i \in 1..Len(results) |->
     [text |-> results[i].title, data |-> CallbackData(results[i].post_id)]]

\* The guard on algolia_index and the read of bot_stats["total_searches"] += 1.
SearchReadTotal(t) ==
  /\ t.pc = "read_total"
  /\ IF ~algolia_index
     THEN tasks' = Resume(t, [t EXCEPT !.pc = "reply"])
     ELSE tasks' = Resume(t, [t EXCEPT !.pc = "write_total", !.tmp = bot_stats.total_searches])
  /\ UNCHANGED <<now, verified_users, users_database, user_sessions, bot_stats, nQueries,
                 acceptedAt, queryAt, joined, next_message_id, listings>>
  /\ UNCHANGED storeVars
  /\ UNCHANGED initVars
  /\ UNCHANGED <<lastEvent, outbox>>

\* The write of bot_stats["total_searches"] += 1.
SearchWriteTotal(t) ==
  /\ t.pc = "write_total"
  /\ bot_stats' = [bot_stats EXCEPT !.total_searches = t.tmp + 1]
  /\ tasks' = Resume(t, [t EXCEPT !.pc = "search"])
  /\ UNCHANGED <<now, verified_users, users_database, user_sessions, nQueries,
                 acceptedAt, queryAt, joined, next_message_id, listings>>
  /\ UNCHANGED storeVars
  /\ UNCHANGED initVars
  /\ UNCHANGED <<lastEvent, outbox>>

\* algolia_index.search(...): which documents match, and in which order, is
\* the service's choice; ok = FALSE: the call raises and the function returns
\* []. On success the read of bot_stats["algolia_searches"] += 1 follows.
SearchCall(t, ok, hits) ==
  /\ t.pc = "search"
  /\ hits \in Orderings(index)
  /\ Len(hits) <= SEARCH_LIMIT
  /\ IF ok
     THEN tasks' = Resume(t, [t EXCEPT !.pc = "write_algolia", !.hits = hits,
                                       !.tmp = bot_stats.algolia_searches])
     ELSE /\ hits = <<>>
          /\ tasks' = Resume(t, [t EXCEPT !.pc = "reply"])
  /\ UNCHANGED <<now, verified_users, users_database, user_sessions, bot_stats, nQueries,
                 acceptedAt, queryAt, joined, next_message_id, listings>>
  /\ UNCHANGED storeVars
  /\ UNCHANGED initVars
  /\ UNCHANGED <<lastEvent, outbox>>

\* The write of bot_stats["algolia_searches"] += 1 and the return.
SearchWriteAlgolia(t) ==
  /\ t.pc = "write_algolia"
  /\ bot_stats' = [bot_stats EXCEPT !.algolia_searches = t.tmp + 1]
  /\ tasks' = Resume(t, [t EXCEPT !.pc = "reply"])
  /\ UNCHANGED <<now, verified_users, users_database, user_sessions, nQueries,
                 acceptedAt, queryAt, joined, next_message_id, listings>>
  /\ UNCHANGED storeVars
  /\ UNCHANGED initVars
  /\ UNCHANGED <<lastEvent, outbox>>

\* handle_search after the search: the 'not found' answer, or the listing.
\* ok: the outcome of the send; if it raises, the handler resumes in its
\* except block, otherwise the listing is in the chat and the handler
\* resumes to record it.
SearchReply(t, ok) ==
  /\ t.pc = "reply"
  /\ outbox' = IF Results(t.hits) = <<>> THEN <<Msg(t.user, "not_found", ok)>>
               ELSE <<[Msg(t.user, "listing", ok) EXCEPT !.url = Keyboard(Results(t.hits))]>>
  /\ IF ~ok
     THEN /\ tasks' = Resume(t, Frame("handle_search_reply", t.user, "except", outbox', <<>>))
          /\ lastEvent' = Pending("handle_search_reply", t.user)
          /\ UNCHANGED <<next_message_id, listings>>
     ELSE IF Results(t.hits) = <<>>
     THEN /\ tasks' = Finish(t)
          /\ lastEvent' = Event("handle_search_reply", t.user, FALSE)
          /\ UNCHANGED <<next_message_id, listings>>
     ELSE /\ tasks' = Resume(t, [t EXCEPT !.pc = "store", !.msg = next_message_id])
          /\ lastEvent' = Event("handle_search_reply", t.user, FALSE)
          /\ next_message_id' = next_message_id + 1
          /\ listings' = listings \cup {[to |-> t.user, msg |-> next_message_id]}
  /\ UNCHANGED <<now, verified_users, users_database, user_sessions, bot_stats, nQueries,
                 acceptedAt, queryAt, joined>>
  /\ UNCHANGED storeVars
  /\ UNCHANGED initVars

\* user_sessions[user_id]['last_search_msg'] = sent_msg.message_id
SearchStore(t) ==
  /\ t.pc = "store"
  /\ user_sessions' = SessionSet(user_sessions, t.user, "last_search_msg", t.msg)
  /\ tasks' = Finish(t)
  /\ UNCHANGED <<now, verified_users, users_database, bot_stats, nQueries,
                 acceptedAt, queryAt, joined, next_message_id, listings>>
  /\ UNCHANGED storeVars
  /\ UNCHANGED initVars
  /\ UNCHANGED <<lastEvent, outbox>>

\* ---- bot.py: handle_search, which calls the synchronous algolia_fuzzy_search
\* ---- itself. The handler runs from the update to the await of its answer in
\* ---- one step of the event loop: gate, rate limit, both counters, the index
\* ---- call and the send; the store of last_search_msg follows the await.
bot_algolia_fuzzy_search(hasIndex, searchOk, hits) ==
  IF hasIndex /\ searchOk THEN Results(hits) ELSE <<>>

bot_handle_search(u, text, d, searchOk, hits, ok) ==
  IF text = <<>> \/ StartsWith(text, <<"/">>)
  THEN /\ outbox' = <<>>
       /\ lastEvent' = Event("handle_search", u, FALSE)
       /\ UNCHANGED chatVars
       /\ UNCHANGED storeVars
       /\ UNCHANGED initVars
  ELSE /\ nQueries' = nQueries + 1
       /\ now' = now + d
       /\ IF u = NoUser
          THEN /\ outbox' = WithErrorAnswer(u, <<>>, TRUE, ok)
               /\ lastEvent' = Event("handle_search", u, ~ok)
               /\ UNCHANGED <<users_database, user_sessions, bot_stats, tasks, acceptedAt,
                              queryAt, next_message_id, listings>>
          ELSE IF ~GateOpen(u, verified_users)
          THEN \* await cmd_start(message)
               /\ users_database' = users_database \cup {u}
               /\ outbox' = <<Msg(u, StartReply(u, verified_users), ok)>>
               /\ IF ok
                  THEN /\ lastEvent' = Event("handle_search", u, FALSE)
                       /\ UNCHANGED tasks
                  ELSE /\ lastEvent' = Pending("handle_search", u)
                       /\ tasks' = tasks (+) SetToBag({
                            Frame("handle_search", u, "except", outbox', <<>>)})
               /\ UNCHANGED <<user_sessions, bot_stats, acceptedAt, queryAt,
                              next_message_id, listings>>
          ELSE /\ queryAt' = [queryAt EXCEPT ![u] = now']
               /\ UNCHANGED users_database
               /\ IF RateLimited(user_sessions, u, now')
                  THEN /\ outbox' = <<>>
                       /\ lastEvent' = Event("handle_search", u, FALSE)
                       /\ UNCHANGED <<user_sessions, bot_stats, tasks, acceptedAt,
                                      next_message_id, listings>>
                  ELSE LET results == bot_algolia_fuzzy_search(algolia_index, searchOk, hits)
                       IN /\ hits \in Orderings(index)
                          /\ Len(hits) <= SEARCH_LIMIT
                          /\ user_sessions' = SessionSet(user_sessions, u, "last_action", now')
                          /\ acceptedAt' = [acceptedAt EXCEPT ![u] = now']
                          /\ bot_stats' =
                               IF ~algolia_index THEN bot_stats
                               ELSE [bot_stats EXCEPT
                                       !.total_searches = @ + 1,
                                       !.algolia_searches = IF searchOk THEN @ + 1 ELSE @]
                          /\ outbox' = IF results = <<>> THEN <<Msg(u, "not_found", ok)>>
                                       ELSE <<[Msg(u, "listing", ok) EXCEPT
                                                 !.url = Keyboard(results)]>>
                          /\ IF ~ok
                             THEN /\ tasks' = tasks (+) SetToBag({
                                       Frame("handle_search", u, "except", outbox', <<>>)})
                                  /\ lastEvent' = Pending("handle_search", u)
                                  /\ UNCHANGED <<next_message_id, listings>>
                             ELSE IF results = <<>>
                             THEN /\ lastEvent' = Event("handle_search", u, FALSE)
                                  /\ UNCHANGED <<tasks, next_message_id, listings>>
                             ELSE /\ tasks' = tasks (+) SetToBag({
                                       [user |-> u, pc |-> "store", tmp |-> 0,
                                        hits |-> hits, msg |-> next_message_id]})
                                  /\ lastEvent' = Event("handle_search", u, FALSE)
                                  /\ next_message_id' = next_message_id + 1
                                  /\ listings' = listings \cup
                                                   {[to |-> u, msg |-> next_message_id]}
       /\ UNCHANGED <<verified_users, joined>>
       /\ UNCHANGED storeVars
       /\ UNCHANGED initVars

\* ---- send_movie_link
\* The listing named in the session of u
LastListing(sessions, u) ==
  [to |-> u, msg |-> DictGet(sessions, u, EmptyDict)["last_search_msg"]]

\* Whether the body leaves for the outer except block after a call:
\* delete_message sits in its own try with 'except: pass', so only a failing
\* send does.
SelectionRaisesOnDelete(sendFailed, deleteFailed) == sendFailed \/ deleteFailed
SelectionRaises(sendFailed, deleteFailed) == sendFailed

\* send_movie_link up to its first await. ok: the outcome of the call this
\* step makes (for delete_message: whether the service accepts the request;
\* the chat deletes a message only if it still holds it). A callback without
\* from_user raises AttributeError when it is logged, and the except block
\* answers. The answers 'denied' and 'bad choice' are made inside the try
\* block: if they raise, the handler resumes in its except block.
send_movie_link(u, data, ok) ==
  /\ LET Refuse(kind) ==
           /\ outbox' = <<Msg(u, kind, ok)>>
           /\ IF ok
              THEN /\ lastEvent' = Event("send_movie_link", u, FALSE)
                   /\ UNCHANGED tasks
              ELSE /\ lastEvent' = Pending("send_movie_link", u)
                   /\ tasks' = tasks (+) SetToBag({
                        Frame("send_movie_link", u, "except", outbox', <<>>)})
           /\ UNCHANGED listings
     IN
     IF u = NoUser
     THEN /\ outbox' = WithErrorAnswer(u, <<>>, TRUE, ok)
          /\ lastEvent' = Event("send_movie_link", u, ~ok)
          /\ UNCHANGED <<tasks, listings>>
     ELSE IF ~GateOpen(u, verified_users)
     THEN Refuse("denied")
     ELSE IF Len(Split(data, "_")) < 2 \/ ~IsInt(Split(data, "_")[2])
     THEN Refuse("bad_choice")
     ELSE LET post_id == ParseInt(Split(data, "_")[2])
              post_url == PostUrl(LIBRARY_CHANNEL_ID, post_id)
              has == "last_search_msg" \in DOMAIN DictGet(user_sessions, u, EmptyDict)
              deleted == has /\ ok /\ LastListing(user_sessions, u) \in listings
              link == [Msg(u, "link", ok) EXCEPT !.url = post_url]
          IN /\ outbox' = IF has THEN <<Msg(u, "delete", deleted)>> ELSE <<link>>
             /\ listings' = IF deleted THEN listings \ {LastListing(user_sessions, u)}
                            ELSE listings
             /\ lastEvent' = Pending("send_movie_link", u)
             /\ tasks' = tasks (+) SetToBag({
                  Frame("send_movie_link", u,
                        IF has
                        THEN (IF SelectionRaises(FALSE, ~deleted) THEN "except" ELSE "link")
                        ELSE (IF SelectionRaises(~ok, FALSE) THEN "except" ELSE "link_ack"),
                        outbox', post_url)})
  /\ UNCHANGED <<now, verified_users, users_database, user_sessions, bot_stats,
                 nQueries, acceptedAt, queryAt, joined, next_message_id>>
  /\ UNCHANGED storeVars
  /\ UNCHANGED initVars

\* send_movie_link after delete_message: bot.send_message with the link
send_movie_link_send(t, ok) ==
  /\ t.pc = "link"
  /\ outbox' = t.log \o <<[Msg(t.user, "link", ok) EXCEPT !.url = t.url]>>
  /\ lastEvent' = Pending("send_movie_link", t.user)
  /\ tasks' = Resume(t, [t EXCEPT !.log = outbox',
                                  !.pc = IF SelectionRaises(~ok, FALSE) THEN "except"
                                         ELSE "link_ack"])
  /\ UNCHANGED <<now, verified_users, users_database, user_sessions, bot_stats, nQueries,
                 acceptedAt, queryAt, joined, next_message_id, listings>>
  /\ UNCHANGED storeVars
  /\ UNCHANGED initVars

\* send_movie_link after the link: callback.answer, still inside the try block
send_movie_link_ack(t, ok) ==
  /\ t.pc = "link_ack"
  /\ outbox' = t.log \o <<Msg(t.user, "link_ack", ok)>>
  /\ IF SelectionRaises(~ok, FALSE)
     THEN /\ lastEvent' = Pending("send_movie_link", t.user)
          /\ tasks' = Resume(t, [t EXCEPT !.log = outbox', !.pc = "except"])
     ELSE /\ lastEvent' = Event("send_movie_link", t.user, FALSE)
          /\ tasks' = Finish(t)
  /\ UNCHANGED <<now, verified_users, users_database, user_sessions, bot_stats, nQueries,
                 acceptedAt, queryAt, joined, next_message_id, listings>>
  /\ UNCHANGED storeVars
  /\ UNCHANGED initVars

\* except Exception of send_movie_link
send_movie_link_except(t, okErr) ==
  t.pc = "except" /\ t.h = "send_movie_link" /\ ExceptAnswer(t, okErr)

\* The size a broadcast holds before 'for ... in users_database.items()' has
\* created its iterator.
NoIterator == 0 - 1

\* users_database.clear() replaces the table of the dict: an iterator that is
\* live on it goes on, from its position, in whatever the table holds next.
TableCleared(t) ==
  IF t.pc = "broadcast" /\ t.size # NoIterator THEN [t EXCEPT !.cleared = TRUE] ELSE t

\* The number in the report: old_count = len(users_database) before the clear
CleanupCountAfterClear(dir) == IntToStr(0)
CleanupCount(dir) == IntToStr(Cardinality(dir))

\* cmd_cleanup_users
cmd_cleanup_users(u, ok) ==
  /\ IF u = NoUser \/ u \notin ADMIN_IDS
     THEN /\ outbox' = <<>>
          /\ lastEvent' = Event("cmd_cleanup_users", u, FALSE)
          /\ UNCHANGED <<users_database, tasks>>
     ELSE /\ users_database' = {}
          /\ tasks' = BagOfAll(TableCleared, tasks)
          /\ outbox' = <<[Msg(u, "cleanup_report", ok) EXCEPT
                            !.url = CleanupCount(users_database)]>>
          /\ lastEvent' = Event("cmd_cleanup_users", u, ~ok)
  /\ UNCHANGED <<now, verified_users, user_sessions, bot_stats, nQueries,
                 acceptedAt, queryAt, joined, next_message_id, listings>>
  /\ UNCHANGED storeVars
  /\ UNCHANGED initVars

\* ---- the other admin commands
\* A handler that returns for everyone but an operator and otherwise sends
\* one fixed message, outside any try block.
AdminNotice(h, kind, u, ok) ==
  /\ IF u = NoUser \/ u \notin ADMIN_IDS
     THEN /\ outbox' = <<>>
          /\ lastEvent' = Event(h, u, FALSE)
     ELSE /\ outbox' = <<Msg(u, kind, ok)>>
          /\ lastEvent' = Event(h, u, ~ok)
  /\ UNCHANGED chatVars
  /\ UNCHANGED storeVars
  /\ UNCHANGED initVars

cmd_refresh(u, ok) == AdminNotice("cmd_refresh", "refresh_report", u, ok)
cmd_reload_config(u, ok) == AdminNotice("cmd_reload_config", "reload_report", u, ok)
\* The report carries the counters; only its kind is kept.
cmd_stats(u, ok) == AdminNotice("cmd_stats", "stats_report", u, ok)

\* What cmd_total_movies answers with: the failure texts, or the count.
\* dbOk = FALSE: the count query raises.
TotalMoviesReply(hasEngine, hasSession, dbOk, rows) ==
  IF ~hasEngine THEN [kind |-> "db_failed", text |-> <<>>]
  ELSE IF ~hasSession THEN [kind |-> "session_unavailable", text |-> <<>>]
  ELSE IF ~dbOk THEN [kind |-> "count_error", text |-> <<>>]
  ELSE [kind |-> "movie_count", text |-> IntToStr(Len(rows))]

\* cmd_total_movies up to its first await. The answer for an unset engine is
\* sent before the try block, and the answer after a failed count from the
\* except block itself: if they raise, the exception leaves the handler. The
\* others are sent inside the try block: if they raise, the handler resumes
\* in its except block.
cmd_total_movies(u, dbOk, ok) ==
  /\ IF u = NoUser \/ u \notin ADMIN_IDS
     THEN /\ outbox' = <<>>
          /\ lastEvent' = Event("cmd_total_movies", u, FALSE)
          /\ UNCHANGED tasks
     ELSE LET r == TotalMoviesReply(engine, SessionLocal, dbOk, movies)
          IN /\ outbox' = <<[Msg(u, r.kind, ok) EXCEPT !.url = r.text]>>
             /\ IF r.kind \in {"db_failed", "count_error"} \/ ok
                THEN /\ lastEvent' = Event("cmd_total_movies", u, ~ok)
                     /\ UNCHANGED tasks
                ELSE /\ lastEvent' = Pending("cmd_total_movies", u)
                     /\ tasks' = tasks (+) SetToBag({
                          Frame("cmd_total_movies", u, "count_error", outbox', <<>>)})
  /\ UNCHANGED <<now, verified_users, users_database, user_sessions, bot_stats, nQueries,
                 acceptedAt, queryAt, joined, next_message_id, listings>>
  /\ UNCHANGED storeVars
  /\ UNCHANGED initVars

\* except Exception of cmd_total_movies, after a send of the try block raised:
\* its answer is not guarded.
cmd_total_movies_except(t, okErr) ==
  /\ t.pc = "count_error"
  /\ outbox' = t.log \o <<Msg(t.user, "count_error", okErr)>>
  /\ lastEvent' = Event("cmd_total_movies", t.user, ~okErr)
  /\ tasks' = Finish(t)
  /\ UNCHANGED <<now, verified_users, users_database, user_sessions, bot_stats, nQueries,
                 acceptedAt, queryAt, joined, next_message_id, listings>>
  /\ UNCHANGED storeVars
  /\ UNCHANGED initVars

\* cmd_help: everyone but an operator gets the user help text.
HelpReplyAdminAlways(u) == "admin_help"
HelpReply(u) == IF u = NoUser \/ u \notin ADMIN_IDS THEN "user_help" ELSE "admin_help"

cmd_help(u, ok) ==
  /\ outbox' = <<Msg(u, HelpReply(u), ok)>>
  /\ lastEvent' = Event("cmd_help", u, ~ok)
  /\ UNCHANGED chatVars
  /\ UNCHANGED storeVars
  /\ UNCHANGED initVars

\* ---- cmd_broadcast
BROADCAST_CMD == <<"/","b","r","o","a","d","c","a","s","t">>
\* The command alone, with a text, and alone with the mention of the bot
BroadcastTexts == { BROADCAST_CMD, BROADCAST_CMD \o <<" ", "h", "i">>,
                    BROADCAST_CMD \o <<"@", "b", "o", "t">> }
\* What the message replied to carries: nothing (or no reply), a photo, a
\* video, or a caption on a message that is neither (a document, say); the
\* caption becomes broadcast_text when the command has none.
Medias == {"none", "photo", "video", "caption"}

\* message.text.replace("/broadcast", "").strip()
BroadcastText(text) == Strip(ReplaceAll(text, BROADCAST_CMD, <<>>))

\* The send each recipient gets.
BroadcastKind(media) ==
  IF media = "photo" THEN "broadcast_photo"
  ELSE IF media = "video" THEN "broadcast_video" ELSE "broadcast_text"

\* What a send to one recipient does: it succeeds, it raises because the
\* recipient has blocked the bot or is deactivated, or it raises otherwise.
SendOutcomes == {"sent", "blocked", "failed"}

NoAttempts == [v \in UserIds |-> 0]

\* cmd_broadcast up to the await of the status message. It has no try block
\* around its own answers. at is the await the handler is suspended at: the
\* status message, a send with its outcome, or the sleep after a send.
cmd_broadcast(u, text, media, ok) ==
  /\ IF u = NoUser \/ u \notin ADMIN_IDS
     THEN /\ outbox' = <<>>
          /\ lastEvent' = Event("cmd_broadcast", u, FALSE)
          /\ UNCHANGED tasks
     ELSE IF BroadcastText(text) = <<>> /\ media = "none"
     THEN /\ outbox' = <<Msg(u, "broadcast_usage", ok)>>
          /\ lastEvent' = Event("cmd_broadcast", u, ~ok)
          /\ UNCHANGED tasks
     ELSE IF users_database = {}
     THEN /\ outbox' = <<Msg(u, "broadcast_no_users", ok)>>
          /\ lastEvent' = Event("cmd_broadcast", u, ~ok)
          /\ UNCHANGED tasks
     ELSE /\ outbox' = <<Msg(u, "broadcast_status", ok)>>
          /\ lastEvent' = IF ok THEN Pending("cmd_broadcast", u)
                          ELSE Event("cmd_broadcast", u, TRUE)
          /\ IF ok
             THEN /\ BagCardinality(tasks) < MaxSearches
                  /\ tasks' = tasks (+) SetToBag({
                       [user |-> u, pc |-> "broadcast", media |-> media, sent |-> 0,
                        blocked |-> 0, attempts |-> NoAttempts, delivered |-> {},
                        remaining |-> {}, size |-> NoIterator, dir |-> users_database,
                        cleared |-> FALSE, at |-> "status"]})
             ELSE UNCHANGED tasks
  /\ UNCHANGED <<now, verified_users, users_database, user_sessions, bot_stats, nQueries,
                 acceptedAt, queryAt, joined, next_message_id, listings>>
  /\ UNCHANGED storeVars
  /\ UNCHANGED initVars

\* The numbers of the summary: Sent, Blocked/Failed, Total Users.
BroadcastSummaryTotalOnly(sent_count, blocked_count, len) ==
  <<IntToStr(sent_count), IntToStr(len), IntToStr(len)>>
BroadcastSummary(sent_count, blocked_count, len) ==
  <<IntToStr(sent_count),
    IntToStr(blocked_count + (len - sent_count - blocked_count)),
    IntToStr(len)>>

\* One turn of 'for ... in users_database.items()', from the return of the
\* status message or of the sleep, or from a send that raised, up to the next
\* await. A send that raised is counted first (except Exception of the loop
\* body: blocked_count, for a blocked or deactivated recipient); the first
\* turn creates the iterator; every turn compares the size of the dict with
\* the size at creation (RuntimeError, outside the try block of the loop
\* body), then sends to the next key; after the last key the summary replaces
\* the status message. dir is the key set the handler found when it started,
\* attempts counts the sends per recipient, delivered holds the recipients of
\* successful sends. On a table that was cleared and refilled to the same
\* size the iterator yields the entries from its position on, whichever keys
\* they hold.
BroadcastTurn(t, send, okEdit) ==
  /\ t.pc = "broadcast"
  /\ t.at # "sent"
  /\ LET first == t.size = NoIterator
         size == IF first THEN Cardinality(users_database) ELSE t.size
         remaining == IF first THEN users_database ELSE t.remaining
         blocked_count == IF t.at = "blocked" THEN t.blocked + 1 ELSE t.blocked
     IN IF Cardinality(users_database) # size
        THEN /\ outbox' = <<>>
             /\ lastEvent' = Event("cmd_broadcast", t.user, TRUE)
             /\ tasks' = Finish(t)
        ELSE IF remaining = {}
        THEN /\ outbox' = <<[Msg(t.user, "broadcast_summary", okEdit) EXCEPT
                               !.url = BroadcastSummary(t.sent, blocked_count,
                                                        Cardinality(users_database))]>>
             /\ lastEvent' = Event("cmd_broadcast", t.user, ~okEdit)
             /\ tasks' = Finish(t)
        ELSE \E v \in (IF t.cleared THEN users_database ELSE remaining) :
             \E gone \in (IF t.cleared THEN remaining ELSE {v}) :
             /\ outbox' = <<Msg(v, BroadcastKind(t.media), send = "sent")>>
             /\ lastEvent' = Pending("cmd_broadcast", t.user)
             /\ tasks' = Resume(t, [t EXCEPT
                            !.size = size, !.remaining = remaining \ {gone},
                            !.attempts = [@ EXCEPT ![v] = @ + 1],
                            !.delivered = IF send = "sent" THEN @ \cup {v} ELSE @,
                            !.blocked = blocked_count,
                            !.at = send])
  /\ UNCHANGED <<now, verified_users, users_database, user_sessions, bot_stats, nQueries,
                 acceptedAt, queryAt, joined, next_message_id, listings>>
  /\ UNCHANGED storeVars
  /\ UNCHANGED initVars

\* The loop body after a send that returned: sent_count += 1, then
\* 'await asyncio.sleep(0.05)'. The step makes no call to the chat.
BroadcastSleep(t) ==
  /\ t.pc = "broadcast"
  /\ t.at = "sent"
  /\ outbox' = <<>>
  /\ lastEvent' = Pending("cmd_broadcast", t.user)
  /\ tasks' = Resume(t, [t EXCEPT !.sent = @ + 1, !.at = "sleep"])
  /\ UNCHANGED <<now, verified_users, users_database, user_sessions, bot_stats, nQueries,
                 acceptedAt, queryAt, joined, next_message_id, listings>>
  /\ UNCHANGED storeVars
  /\ UNCHANGED initVars

\* ---- the health routes, served by the Flask thread
\* "connected" if engine and SessionLocal else "disconnected"; the same for
\* algolia_index
Connected(flag) == IF flag THEN "connected" ELSE "disconnected"

\* The "status" field of health_check's answer.
HealthStatusGated(hasDb, hasIndex) == IF hasDb /\ hasIndex THEN "ok" ELSE "unavailable"
HealthStatus(hasDb, hasIndex) == "ok"

health_check ==
  /\ outbox' = <<[Msg(NoUser, HealthStatus(engine /\ SessionLocal, algolia_index), TRUE)
                   EXCEPT !.url = <<Connected(engine /\ SessionLocal),
                                    Connected(algolia_index),
                                    IntToStr(bot_stats.total_searches)>>]>>
  /\ lastEvent' = Event("health_check", NoUser, FALSE)
  /\ UNCHANGED chatVars
  /\ UNCHANGED storeVars
  /\ UNCHANGED initVars

health_endpoint ==
  /\ outbox' = <<Msg(NoUser, "healthy", TRUE)>>
  /\ lastEvent' = Event("health_endpoint", NoUser, FALSE)
  /\ UNCHANGED chatVars
  /\ UNCHANGED storeVars
  /\ UNCHANGED initVars

\* ---- the dispatcher: message handlers in the order of their decorators
HandlerOrder ==
  << [h |-> "cmd_start", cmd |-> <<"s","t","a","r","t">>],
     [h |-> "handle_search", cmd |-> <<>>],
     [h |-> "cmd_refresh", cmd |-> <<"r","e","f","r","e","s","h">>],
     [h |-> "cmd_cleanup_users", cmd |-> <<"c","l","e","a","n","u","p","_","u","s","e","r","s">>],
     [h |-> "cmd_reload_config", cmd |-> <<"r","e","l","o","a","d","_","c","o","n","f","i","g">>],
     [h |-> "cmd_total_movies", cmd |-> <<"t","o","t","a","l","_","m","o","v","i","e","s">>],
     [h |-> "cmd_help", cmd |-> <<"h","e","l","p">>],
     [h |-> "cmd_stats", cmd |-> <<"s","t","a","t","s">>],
     [h |-> "cmd_broadcast", cmd |-> <<"b","r","o","a","d","c","a","s","t">>] >>

\* The command a text carries: its first word without the leading "/" and
\* without a "@mention".
CommandName(text) == Split(Tail(Split(text, " ")[1]), "@")[1]

\* Command(name): the text starts with "/" and carries this command
CommandMatches(name, text) ==
  text # <<>> /\ Head(text) = "/" /\ CommandName(text) = name

\* F.text for handle_search, Command(...) for the others
FilterPasses(e, text) ==
  IF e.h = "handle_search" THEN text # <<>> ELSE CommandMatches(e.cmd, text)

\* The first handler, in registration order, whose filter passes; it consumes
\* the message whatever it does with it.
RECURSIVE RouteFrom(_, _)
RouteFrom(i, text) ==
  IF i > Len(HandlerOrder) THEN "none"
  ELSE IF FilterPasses(HandlerOrder[i], text) THEN HandlerOrder[i].h
  ELSE RouteFrom(i + 1, text)
Route(text) == RouteFrom(1, text)

\* A message update from u with this text reaches the dispatcher.
Dispatch(u, text, d, media, dbOk, ok) ==
  LET h == Route(text)
  IN CASE h = "cmd_start" -> cmd_start(u, ok)
       [] h = "handle_search" -> handle_search(u, text, d, ok)
       [] h = "cmd_refresh" -> cmd_refresh(u, ok)
       [] h = "cmd_cleanup_users" -> cmd_cleanup_users(u, ok)
       [] h = "cmd_reload_config" -> cmd_reload_config(u, ok)
       [] h = "cmd_total_movies" -> cmd_total_movies(u, dbOk, ok)
       [] h = "cmd_help" -> cmd_help(u, ok)
       [] h = "cmd_stats" -> cmd_stats(u, ok)
       [] h = "cmd_broadcast" -> cmd_broadcast(u, text, media, ok)
       [] OTHER -> UNCHANGED vars

START_CMD == <<"/","s","t","a","r","t">>
REFRESH_CMD == <<"/","r","e","f","r","e","s","h">>
CLEANUP_CMD == <<"/","c","l","e","a","n","u","p","_","u","s","e","r","s">>
RELOAD_CMD == <<"/","r","e","l","o","a","d","_","c","o","n","f","i","g">>
TOTAL_MOVIES_CMD == <<"/","t","o","t","a","l","_","m","o","v","i","e","s">>
HELP_CMD == <<"/","h","e","l","p">>
STATS_CMD == <<"/","s","t","a","t","s">>
AdminCommandTexts ==
  { REFRESH_CMD, CLEANUP_CMD, RELOAD_CMD, TOTAL_MOVIES_CMD, HELP_CMD, STATS_CMD } \cup BroadcastTexts
\* Texts of message updates: the commands, a query, and a message without text.
UpdateTexts == AdminCommandTexts \cup {START_CMD, <<" ", "i", "n", "c", "e", "p">>, <<>>}

\* ---- events, with the inputs each specification draws them from
RateDelays == {1, 999}

\* The handlers suspended at a send other than the answer of a search.
AtSend(b) == {t \in BagToSet(b) : "log" \in DOMAIN t /\ t.h # "handle_search_reply"}
RECURSIVE CopiesOf(_, _)
CopiesOf(b, S) ==
  IF S = {} THEN 0
  ELSE LET t == CHOOSE x \in S : TRUE IN CopiesIn(t, b) + CopiesOf(b, S \ {t})
\* The step leaves no more than MaxSends handlers suspended at such a send,
\* and no more than MaxSearches others.
Room ==
  /\ CopiesOf(tasks', AtSend(tasks')) <= MaxSends
  /\ BagCardinality(tasks') - CopiesOf(tasks', AtSend(tasks')) <= MaxSearches

Start(U) == \E u \in U, ok \in BOOLEAN : cmd_start(u, ok)
Joined(U, Oks) ==
  (\E u \in U, hasMessage \in BOOLEAN, ok \in Oks : process_joined(u, hasMessage, ok)) /\ Room
NonQuery(U) ==
  \E u \in U, text \in Texts \ QueryTexts : handle_search(u, text, 0, TRUE)
Query(U, D, Oks, max) ==
  /\ nQueries < max
  /\ \E u \in U, text \in QueryTexts, d \in D, ok \in Oks : handle_search(u, text, d, ok)
  /\ Room
\* Queries whose searches may overlap
Searches(U, max) ==
  /\ nQueries < max
  /\ \E u \in U, text \in QueryTexts : handle_search(u, text, RATE_LIMIT_MS, TRUE)
SearchThread ==
  \E t \in Suspended :
    \/ SearchReadTotal(t)
    \/ SearchWriteTotal(t)
    \/ \E ok \in BOOLEAN, hits \in Orderings(index) : SearchCall(t, ok, hits)
    \/ SearchWriteAlgolia(t)
SearchResume(Oks) ==
  \E t \in Suspended :
    \/ \E ok \in Oks : SearchReply(t, ok)
    \/ SearchStore(t)
Selection(U, D, Oks) ==
  (\E u \in U, data \in D, ok \in Oks : send_movie_link(u, data, ok)) /\ Room
\* A handler suspended at a send is resumed.
Resumed(Oks) ==
  \E t \in Suspended, ok \in Oks :
    \/ process_joined_ack(t, ok)
    \/ handle_search_except(t, ok)
    \/ send_movie_link_send(t, ok)
    \/ send_movie_link_ack(t, ok)
    \/ send_movie_link_except(t, ok)
    \/ cmd_total_movies_except(t, ok)
Cleanup(U) == \E u \in U, ok \in BOOLEAN : cmd_cleanup_users(u, ok)

\* Start-up succeeded and the stores hold an earlier run's record.
InitLive == Init /\ SessionLocal /\ algolia_index /\ movies # <<>>
\* Start-up in any of its outcomes, on stores that hold an earlier run's record.
InitStocked == Init /\ movies # <<>>

\* The rate limiter: an operator and a user who verifies, queries 1 ms or
\* 999 ms after the previous one, every send succeeding.
NextRate ==
  \/ Joined(UserIds \ ADMIN_IDS, {TRUE})
  \/ Query(UserIds, RateDelays, {TRUE}, MaxQueries)
  \/ SearchThread
  \/ SearchResume({TRUE})
  \/ Resumed({TRUE})
SpecRate == InitLive /\ [][NextRate]_vars

\* The result listings: users who verify, search several times a full window
\* apart and select; the listing is always delivered, the sends of the
\* selection and delete_message may fail.
NextListing ==
  \/ Joined(UserIds \ ADMIN_IDS, {TRUE})
  \/ Query(UserIds, {RATE_LIMIT_MS}, {TRUE}, MaxQueries)
  \/ SearchThread
  \/ SearchResume({TRUE})
  \/ Selection(UserIds, {<<"p","o","s","t","_","1">>}, BOOLEAN)
  \/ Resumed(BOOLEAN)
SpecListing == InitLive /\ [][NextListing]_vars

\* bot.py, the chat handlers an update reaches: users who verify, search a
\* full window apart and select. Its process_joined and send_movie_link are
\* those of main.py.
BotQuery(U, D, Oks, max) ==
  /\ nQueries < max
  /\ \E u \in U, text \in QueryTexts, d \in D, searchOk \in BOOLEAN,
        hits \in Orderings(index), ok \in Oks :
       bot_handle_search(u, text, d, searchOk, hits, ok)
  /\ Room
BotStore == \E t \in Suspended : SearchStore(t)
NextBot ==
  \/ Joined(UserIds \ ADMIN_IDS, {TRUE})
  \/ BotQuery(UserIds, {RATE_LIMIT_MS}, BOOLEAN, MaxQueries)
  \/ BotStore
  \/ Selection(UserIds, {<<"p","o","s","t","_","1">>}, {TRUE})
  \/ Resumed(BOOLEAN)
SpecBot == InitLive /\ [][NextBot]_vars

\* The selection: users who verify, search once and press buttons whose
\* callback data is well formed or not; every send and delete_message may fail.
NextSelect ==
  \/ Joined(UserIds \ ADMIN_IDS, {TRUE})
  \/ Query(UserIds, {RATE_LIMIT_MS}, {TRUE}, MaxGateQueries)
  \/ SearchThread
  \/ SearchResume({TRUE})
  \/ Selection(UserIds, Datas, BOOLEAN)
  \/ Resumed(BOOLEAN)
SpecSelect == InitLive /\ [][NextSelect]_vars

\* From the listing to the link: the stores hold three records of an earlier
\* run, one of them with post_id 0; users verify, search once and press a
\* button of the listing they have just received.
TripCatalog ==
  << [id |-> 1, title |-> <<"A">>, post_id |-> 7],
     [id |-> 2, title |-> <<"B">>, post_id |-> 10],
     [id |-> 3, title |-> <<"C">>, post_id |-> 0] >>
InitTrip ==
  /\ engine = TRUE
  /\ SessionLocal = TRUE
  /\ algolia_index = TRUE
  /\ boot = BootRunning
  /\ InitGlobalsFrom({TripCatalog})
Press(U) ==
  \E u \in U, i \in DOMAIN outbox :
    /\ outbox[i].kind = "listing" /\ outbox[i].ok /\ outbox[i].to = u
    /\ \E k \in DOMAIN outbox[i].url, ok \in BOOLEAN :
         send_movie_link(u, outbox[i].url[k].data, ok)
    /\ Room
NextTrip ==
  \/ Joined(UserIds \ ADMIN_IDS, {TRUE})
  \/ Query(UserIds, {RATE_LIMIT_MS}, {TRUE}, MaxGateQueries)
  \/ SearchThread
  \/ SearchResume({TRUE})
  \/ Press(UserIds)
  \/ Resumed(BOOLEAN)
SpecTrip == InitTrip /\ [][NextTrip]_vars

\* The rate limiter among other traffic: the queries of SpecRate, with
\* /start, selections and /cleanup_users of either user in between.
NextShared ==
  \/ Start(UserIds)
  \/ Joined(UserIds \ ADMIN_IDS, {TRUE})
  \/ Query(UserIds, RateDelays, {TRUE}, MaxQueries)
  \/ SearchThread
  \/ SearchResume({TRUE})
  \/ Selection(UserIds, {<<"p","o","s","t","_","1">>}, {TRUE})
  \/ Resumed({TRUE})
  \/ Cleanup(ADMIN_IDS)
SpecShared == InitLive /\ [][NextShared]_vars

\* The user directory: users send /start, press 'joined' (whether or not the
\* directory holds them), search and select, while an operator may clear the
\* directory.
NextDirectory ==
  \/ Start(UserIds)
  \/ Joined(UserIds \ ADMIN_IDS, {TRUE})
  \/ Query(UserIds, {RATE_LIMIT_MS}, {TRUE}, MaxGateQueries)
  \/ SearchThread
  \/ SearchResume({TRUE})
  \/ Selection(UserIds, {<<"p","o","s","t","_","1">>}, {TRUE})
  \/ Resumed({TRUE})
  \/ Cleanup(ADMIN_IDS)
SpecDirectory == InitLive /\ [][NextDirectory]_vars

\* The access gate: every chat handler, queries spaced a full window apart,
\* a well-formed and a malformed selection; delete_message and the error
\* answer succeed.
GateDatas == { <<"p","o","s","t","_","1">>, <<"p","o","s","t","_","x">> }
NextGate ==
  \/ Start(Senders)
  \/ Joined(Senders, BOOLEAN)
  \/ NonQuery(UserIds)
  \/ Query(UserIds, {RATE_LIMIT_MS}, BOOLEAN, MaxGateQueries)
  \/ SearchThread
  \/ SearchResume(BOOLEAN)
  \/ Selection(UserIds, GateDatas, {TRUE})
  \/ Resumed(BOOLEAN)
  \/ Cleanup(Senders)
SpecGate == InitLive /\ [][NextGate]_vars

\* ---- the admin console, the dispatcher and the health routes: every admin
\* command called directly and sent as a message update, /start and the
\* 'joined' callback to fill the user directory and the verified set
Refresh(U) == \E u \in U, ok \in BOOLEAN : cmd_refresh(u, ok)
ReloadConfig(U) == \E u \in U, ok \in BOOLEAN : cmd_reload_config(u, ok)
Stats(U) == \E u \in U, ok \in BOOLEAN : cmd_stats(u, ok)
TotalMovies(U) ==
  (\E u \in U, dbOk, ok \in BOOLEAN : cmd_total_movies(u, dbOk, ok)) /\ Room
Help(U) == \E u \in U, ok \in BOOLEAN : cmd_help(u, ok)
Broadcast(U, M) ==
  \E u \in U, text \in BroadcastTexts, media \in M, ok \in BOOLEAN :
    cmd_broadcast(u, text, media, ok)
BroadcastResume(Outs) ==
  \E t \in Suspended :
    \/ \E send \in Outs, okEdit \in BOOLEAN : BroadcastTurn(t, send, okEdit)
    \/ BroadcastSleep(t)
Update(U, T, Oks, max) ==
  \E u \in U, text \in T, dbOk, ok \in Oks :
    /\ text \in QueryTexts => nQueries < max
    /\ Dispatch(u, text, RATE_LIMIT_MS, "none", dbOk, ok)
    /\ Room
Health == health_check \/ health_endpoint

NextAdmin ==
  \/ Start(UserIds)
  \/ Joined(UserIds \ ADMIN_IDS, {TRUE})
  \/ Update(UserIds, UpdateTexts \ QueryTexts, {TRUE}, MaxGateQueries)
  \/ Refresh(Senders)
  \/ Cleanup(Senders)
  \/ ReloadConfig(Senders)
  \/ TotalMovies(Senders)
  \/ Resumed(BOOLEAN)
  \/ Help(Senders)
  \/ Stats(Senders)
  \/ Broadcast(Senders, {"none"})
  \/ BroadcastResume({"sent"})
  \/ Health
SpecAdmin == InitStocked /\ [][NextAdmin]_vars

\* ---- the counters: searches of the operator and of a user who verifies,
\* a full window apart, whose worker threads may run at the same time
NextCounters ==
  \/ Joined(UserIds \ ADMIN_IDS, {TRUE})
  \/ Searches(UserIds, MaxQueries)
  \/ SearchThread
  \/ SearchResume({TRUE})
  \/ Resumed({TRUE})
SpecCounters == InitLive /\ [][NextCounters]_vars

\* ---- a broadcast and the handlers that change the user directory while it
\* is suspended at an await
NextBroadcast ==
  \/ Start(UserIds)
  \/ Cleanup(ADMIN_IDS)
  \/ Broadcast(Senders, Medias)
  \/ BroadcastResume(SendOutcomes)
SpecBroadcast == Init /\ [][NextBroadcast]_vars

\* ---- start-up followed by the health routes: main() starts the Flask thread
\* once the module, and with it the start-up call, has been executed
ServeHealth == boot.pc = "running" /\ Health
NextStartup == NextBoot \/ ServeHealth
SpecStartup == InitBoot /\ [][NextStartup]_vars

Next ==
  \/ NextIngest
  \/ Start(Senders)
  \/ Joined(Senders, BOOLEAN)
  \/ NonQuery(UserIds)
  \/ Query(UserIds, Delays, BOOLEAN, MaxQueries)
  \/ SearchThread
  \/ SearchResume(BOOLEAN)
  \/ Selection(UserIds, Datas, BOOLEAN)
  \/ Resumed(BOOLEAN)
  \/ Cleanup(Senders)
Spec == Init /\ [][Next]_vars

\* ------------------------------------------------- claims about ingestion
Copies(r, b) == IF r \in BagToSet(b) THEN b[r] ELSE 0

\* C1 as stated: whenever a run for a post id returns that was handed off
\* after an earlier run for the same post id had returned, it returns False
\* and the store holds exactly one record with that post id, the index at
\* most one document for it.
C1_SecondRunAlwaysNoOp ==
  lastRun.second =>
    /\ lastRun.ret = FALSE
    /\ Cardinality(RowsWithPost(lastRun.post_id)) = 1
    /\ Cardinality(DocsWithPost(lastRun.post_id)) <= 1

\* C1 amended: a run whose duplicate query finds a record with its post id
\* returns False at that step and changes neither store (so once one run has
\* committed the record, every later run for that post id is a no-op).
C1_RunOnExistingIsNoOp ==
  [][\A r \in InFlight :
       (/\ r.pc = "query"
        /\ RowsWithPost(r.post_id) # {}
        /\ SessionLocal /\ algolia_index
        /\ Copies(r, workers') < Copies(r, workers))
       => /\ BagCardinality(workers') = BagCardinality(workers) - 1
          /\ lastRun' = [post_id |-> r.post_id, ret |-> FALSE, second |-> r.second]
          /\ movies' = movies
          /\ nextId' = nextId
          /\ index' = index]_vars

\* Witness of C1: a second run has returned False with exactly one record and
\* one document for its post id in the stores.
C1_Witness ==
  /\ lastRun.second
  /\ lastRun.ret = FALSE
  /\ Cardinality(RowsWithPost(lastRun.post_id)) = 1
  /\ Cardinality(DocsWithPost(lastRun.post_id)) = 1

\* C2: in every interleaving of the worker threads there is at most one
\* record and at most one document per post id, and a run that is about to
\* call save_object has its record committed.
C2_AtMostOnePerPost ==
  /\ \A p \in PostIds :
       /\ Cardinality(RowsWithPost(p)) <= 1
       /\ Cardinality(DocsWithPost(p)) <= 1
  /\ \A r \in InFlight :
       r.pc = "save" =>
         \E i \in 1..Len(movies) : movies[i].id = r.id /\ movies[i].post_id = r.post_id

\* Witness of C2: a value of the id sequence was consumed by an insert that
\* the unique constraint rejected, i.e. two runs had both passed the
\* duplicate query, and the surviving record is indexed.
C2_Witness ==
  /\ nextId > Len(movies) + 1
  /\ \E p \in PostIds : Cardinality(RowsWithPost(p)) = 1 /\ Cardinality(DocsWithPost(p)) = 1

Quiescent == workers = EmptyBag
HasDoc(id) == \E d \in index : d.objectID = ObjectID(id)
HasRow(id) == \E i \in 1..Len(movies) : movies[i].id = id

\* C3 as stated: with no ingestion in flight, a document with objectID = id
\* exists if and only if a record with that id exists.
C3_IndexIffStore ==
  Quiescent => \A id \in 1..nextId : HasDoc(id) <=> HasRow(id)

\* C3 amended: every document's objectID is the id of a record; and with no
\* ingestion in flight a record lacks its document exactly when the run that
\* inserted it failed after the commit.
C3_IndexWithinStore ==
  /\ \A d \in index : \E i \in 1..Len(movies) : d.objectID = IntToStr(movies[i].id)
  /\ Quiescent =>
       \A i \in 1..Len(movies) :
         (~\E d \in index : d.objectID = IntToStr(movies[i].id))
           <=> movies[i].id \in failedSaves

\* Witness of C3: nothing is in flight and a record is left without its
\* document by a run that failed after the commit and returned False.
C3_Witness ==
  /\ Quiescent
  /\ \E i \in 1..Len(movies) : movies[i].id \in failedSaves /\ ~HasDoc(movies[i].id)
  /\ lastRun.ret = FALSE

\* C14: a record in the store stays there with the same id, title and
\* post id at every step, and no two records share an id or a post id.
C14_WriteOnce ==
  /\ [](\A i, j \in 1..Len(movies) :
          i # j => (movies[i].id # movies[j].id /\ movies[i].post_id # movies[j].post_id))
  /\ [][/\ Len(movies') >= Len(movies)
        /\ \A i \in 1..Len(movies) : movies'[i] = movies[i]]_vars

\* Witness of C14: two records of different posts are stored, and a run for
\* the post id of one of them with another title has passed the duplicate
\* query and is about to insert.
C14_Witness ==
  /\ Len(movies) = 2
  /\ movies[1].post_id # movies[2].post_id
  /\ \E r \in InFlight :
       /\ r.pc = "insert"
       /\ \E i \in 1..Len(movies) :
            movies[i].post_id = r.post_id /\ movies[i].title # Strip(r.title)

\* The skip conditions as the claim lists them.
ClaimedSkip(chat, attachment, caption) ==
  \/ chat # LIBRARY_CHANNEL_ID
  \/ ~attachment
  \/ caption = <<>>
  \/ Strip(Split(caption, "\n")[1]) = <<>>
  \/ Strip(Split(caption, "\n")[1]) = UNKNOWN_MOVIE

\* C15: a channel post from another chat, without attachment, without
\* caption, with an empty first caption line or with the placeholder title
\* hands off no ingestion, leaves store and index unchanged and sends nothing.
C15_SkipConditions ==
  [][\A chat \in ChatIds, attachment \in BOOLEAN, caption \in Captions, mid \in PostIds :
       (handle_channel_post(chat, attachment, caption, mid)
        /\ ClaimedSkip(chat, attachment, caption))
       => /\ workers' = workers
          /\ movies' = movies
          /\ index' = index
          /\ nextId' = nextId
          /\ outbox' = <<>>
          /\ ~lastEvent'.escaped]_vars

\* Witness of C15: a channel post has been handled, nothing was sent and no
\* ingestion has ever been handed off.
C15_Witness ==
  /\ lastEvent.h = "handle_channel_post"
  /\ outbox = <<>>
  /\ workers = EmptyBag
  /\ returned = {}
  /\ movies = <<>>
  /\ index = {}

\* C16: the caption " B\nH" on library post mid hands off a run with title
\* "B" and post id mid; every stored title is a trimmed first caption line,
\* and every document carries the id, title and post id of its record.
C16_TitleDerivation ==
  /\ [](\A i \in 1..Len(movies) :
          movies[i].title \in {<<"A">>, <<"B">>} /\ movies[i].post_id \in PostIds \ {0})
  /\ [](\A d \in index : \E i \in 1..Len(movies) :
          d = [objectID |-> IntToStr(movies[i].id), title |-> movies[i].title,
               post_id |-> movies[i].post_id])
  /\ [][\A mid \in PostIds \ {0} :
          (handle_channel_post(LIBRARY_CHANNEL_ID, TRUE, <<" ", "B", "\n", "H">>, mid))
          => \E r \in BagToSet(workers') :
               /\ r.title = <<"B">>
               /\ r.post_id = mid
               /\ r.pc = "query"
               /\ Copies(r, workers') = Copies(r, workers) + 1]_vars

\* Witness of C16: the caption " B\nH" on post 1 of the library channel, on
\* an empty catalog, has produced one record and one document with title "B".
C16_Witness ==
  /\ movies = <<[id |-> 1, title |-> <<"B">>, post_id |-> 1]>>
  /\ index = {[objectID |-> <<"1">>, title |-> <<"B">>, post_id |-> 1]}
  /\ Quiescent

\* ------------------------------------------------ claims about the gate
Kinds(box) == {box[i].kind : i \in 1..Len(box)}

\* The step is the arrival of a free-text query from u.
QueryArrives(u) ==
  /\ nQueries' = nQueries + 1
  /\ lastEvent'.h = "handle_search"
  /\ lastEvent'.user = u

\* The searches in flight: the suspended handlers that hold a search.
SearchesInFlight(b) == {<<t, CopiesIn(t, b)>> : t \in {x \in BagToSet(b) : "hits" \in DOMAIN x}}

\* The query that arrives is dropped: no task, no counter, no session
\* change, nothing sent.
Dropped ==
  /\ tasks' = tasks
  /\ bot_stats' = bot_stats
  /\ user_sessions' = user_sessions
  /\ acceptedAt' = acceptedAt
  /\ outbox' = <<>>

\* C4: no step removes a user from verified_users.
C4_GateMonotone == [][verified_users \subseteq verified_users']_vars

\* Witness of C4: an operator has just cleared the user directory while a
\* user is verified.
C4_Witness ==
  /\ lastEvent.h = "cmd_cleanup_users"
  /\ lastEvent.user \in ADMIN_IDS
  /\ 2 \in verified_users
  /\ users_database = {}

\* C5: every verified user has sent the 'joined' callback themselves.
C5_VerifiedOnlyByAck == verified_users \subseteq joined

\* Witness of C5: user 2 is verified by their own callback, and the operator,
\* who used /start and searched, is not in verified_users.
C5_Witness ==
  /\ verified_users = {2}
  /\ joined = {2}
  /\ AdminId \in users_database
  /\ AdminId \in DOMAIN user_sessions

\* C6: a listing or a link is only ever sent to an operator or a verified
\* user, a search is only ever in flight for such a user, and a selection by
\* anyone else is answered with the access-denied acknowledgment, without a
\* link and without deleting a message.
C6_GateEnforced ==
  /\ \A i \in 1..Len(outbox) :
       outbox[i].kind \in {"listing", "link", "link_ack", "delete", "not_found"}
         => outbox[i].to \in ADMIN_IDS \cup verified_users
  /\ \A t \in Suspended : "hits" \in DOMAIN t => t.user \in ADMIN_IDS \cup verified_users
  /\ (lastEvent.h = "send_movie_link" /\ lastEvent.user \notin ADMIN_IDS \cup verified_users)
       => /\ outbox # <<>>
          /\ outbox[1].kind = "denied"
          /\ Kinds(outbox) \subseteq {"denied", "error"}

\* Witness of C6: user 2, not verified, has selected an option and got the
\* access-denied acknowledgment.
C6_Witness ==
  /\ lastEvent.h = "send_movie_link"
  /\ lastEvent.user = 2
  /\ 2 \notin verified_users
  /\ outbox = <<Msg(2, "denied", TRUE)>>

\* C7: a free-text query from a user who is neither operator nor verified is
\* answered with the join prompt and with nothing else but, the prompt
\* failing, the error text; no search starts, the counters, that user's
\* session and verified_users do not change.
C7_GateRedirect ==
  /\ [][\A u \in UserIds :
          (QueryArrives(u) /\ u \notin ADMIN_IDS \cup verified_users)
          => /\ outbox' = <<[to |-> u, kind |-> "join_prompt", ok |-> outbox'[1].ok,
                              url |-> <<>>]>>
             /\ lastEvent'.done = outbox'[1].ok
             /\ SearchesInFlight(tasks') = SearchesInFlight(tasks)
             /\ bot_stats' = bot_stats
             /\ user_sessions' = user_sessions
             /\ verified_users' = verified_users]_vars
  /\ []((lastEvent.h = "handle_search" /\ outbox # <<>> /\ outbox[1].kind = "join_prompt")
          => /\ Kinds(outbox) \subseteq {"join_prompt", "error"}
             /\ Len(outbox) = (IF outbox[1].ok THEN 1 ELSE IF lastEvent.done THEN 2 ELSE 1))

\* Witness of C7: user 2, not verified, has sent a query and got the prompt.
C7_Witness ==
  /\ lastEvent.h = "handle_search"
  /\ lastEvent.user = 2
  /\ nQueries = 1
  /\ 2 \notin verified_users
  /\ outbox = <<Msg(2, "join_prompt", TRUE)>>
  /\ tasks = EmptyBag

\* C8: an operator is never sent the join prompt or the access-denied
\* acknowledgment, whether or not the operator's id is in verified_users; a
\* selection of an operator is answered with the link (or, if its data is
\* malformed, with the bad-choice acknowledgment): a selection that has ended
\* has made that send, and one that is suspended has made it or is about to;
\* and a query of an operator that the rate limiter lets through starts a
\* search.
C8_OperatorBypass ==
  /\ [](\A i \in 1..Len(outbox) :
          outbox[i].to \in ADMIN_IDS => outbox[i].kind \notin {"join_prompt", "denied"})
  /\ []((lastEvent.h = "send_movie_link" /\ lastEvent.user \in ADMIN_IDS /\ lastEvent.done)
          => Kinds(outbox) \cap {"link", "bad_choice"} # {})
  /\ [](\A t \in Suspended :
          ("log" \in DOMAIN t /\ t.h = "send_movie_link" /\ t.user \in ADMIN_IDS)
          => \/ t.pc \in {"link", "link_ack"}
             \/ Kinds(t.log) \cap {"link", "bad_choice"} # {})
  /\ [][\A u \in ADMIN_IDS :
          (QueryArrives(u) /\ ~RateLimited(user_sessions, u, now'))
          => BagCardinality(tasks') = BagCardinality(tasks) + 1]_vars

\* Witness of C8: the operator, never verified, has been sent a link.
C8_Witness ==
  /\ verified_users \cap ADMIN_IDS = {}
  /\ joined \cap ADMIN_IDS = {}
  /\ lastEvent.h = "send_movie_link"
  /\ \E i \in 1..Len(outbox) :
       outbox[i].kind = "link" /\ outbox[i].to \in ADMIN_IDS /\ outbox[i].ok

\* ---------------------------------------- claims about the rate limiter
\* C9: a query is accepted only if the user's last accepted query arrived at
\* least RATE_LIMIT_SECONDS earlier, and a query arriving sooner is dropped,
\* also while a search of that user is suspended.
C9_RateLimit ==
  [][\A u \in UserIds :
       (QueryArrives(u) /\ u \in ADMIN_IDS \cup verified_users /\ acceptedAt[u] # Never)
       => IF now' - acceptedAt[u] < RATE_LIMIT_SECONDS * 1000
          THEN Dropped
          ELSE acceptedAt'[u] = now']_vars

\* Witness of C9: a query of a user was dropped inside the window while that
\* user's accepted search is still suspended.
C9_Witness ==
  /\ lastEvent.h = "handle_search"
  /\ outbox = <<>>
  /\ lastEvent.user \in ADMIN_IDS \cup verified_users
  /\ queryAt[lastEvent.user] = now
  /\ acceptedAt[lastEvent.user] # Never
  /\ now - acceptedAt[lastEvent.user] \in 1..999
  /\ \E t \in Suspended : t.user = lastEvent.user

\* C10 as stated: a query that arrives 1 ms after the same user's previous
\* query is dropped, whether or not that previous query was accepted.
C10_OneMsLaterAlwaysDropped ==
  [][\A u \in UserIds :
       (/\ QueryArrives(u)
        /\ u \in ADMIN_IDS \cup verified_users
        /\ queryAt[u] # Never
        /\ now' - queryAt[u] = 1)
       => Dropped]_vars

\* C10 amended: a query that arrives 1 ms after the same user's previous
\* query is dropped if that previous query was accepted; if the previous query
\* was itself dropped, it is dropped exactly when less than
\* RATE_LIMIT_SECONDS have passed since the user's last accepted query.
C10_OneMsLater ==
  [][\A u \in UserIds :
       (/\ QueryArrives(u)
        /\ u \in ADMIN_IDS \cup verified_users
        /\ queryAt[u] # Never
        /\ now' - queryAt[u] = 1)
       => /\ acceptedAt[u] # Never
          /\ queryAt[u] = acceptedAt[u] => Dropped
          /\ now' - acceptedAt[u] < RATE_LIMIT_SECONDS * 1000 => Dropped
          /\ now' - acceptedAt[u] >= RATE_LIMIT_SECONDS * 1000 => acceptedAt'[u] = now']_vars

\* Witness of C10: a query was dropped 1 ms after the same user's accepted
\* query.
C10_Witness ==
  /\ lastEvent.h = "handle_search"
  /\ outbox = <<>>
  /\ lastEvent.user \in verified_users
  /\ queryAt[lastEvent.user] = now
  /\ now - acceptedAt[lastEvent.user] = 1

\* -------------------------------------------------- claims about start-up
\* C17: the call makes at most max_retries attempts, returns True at the
\* first attempt that succeeds, returns False only after exactly max_retries
\* failed attempts (at once when max_retries is 0), and always returns.
C17_BoundedRetry ==
  /\ [](boot.tried <= boot.max_retries)
  /\ [](boot.pc \in {"attempt", "sleep"} => (boot.failed = boot.tried /\ ~algolia_index))
  /\ []((boot.pc = "returned" /\ boot.ret)
          => (boot.tried = boot.failed + 1 /\ algolia_index))
  /\ []((boot.pc = "returned" /\ ~boot.ret)
          => (boot.tried = boot.max_retries /\ boot.failed = boot.max_retries))
  /\ ((boot.pc = "idle") ~> (boot.pc = "returned"))

\* Witness of C17: with max_retries = 5 the third attempt succeeded after two
\* failures and delays of 2 s and 4 s.
C17_Witness ==
  /\ boot.pc = "returned"
  /\ boot.ret
  /\ boot.max_retries = 5
  /\ boot.tried = 3
  /\ boot.failed = 2
  /\ boot.slept = 6

\* ------------------------------------- claims about the admin console
\* u sends an admin command: the handler is called for u, or the command
\* arrives as a message update from u. (Every handler records its name and
\* its sender in lastEvent.)
SendsAdminCommand(u) ==
  /\ lastEvent'.user = u
  /\ \/ lastEvent'.h = "cmd_refresh" /\ Refresh({u})
     \/ lastEvent'.h = "cmd_cleanup_users" /\ Cleanup({u})
     \/ lastEvent'.h = "cmd_reload_config" /\ ReloadConfig({u})
     \/ lastEvent'.h = "cmd_total_movies" /\ TotalMovies({u})
     \/ lastEvent'.h = "cmd_help" /\ Help({u})
     \/ lastEvent'.h = "cmd_stats" /\ Stats({u})
     \/ lastEvent'.h = "cmd_broadcast" /\ Broadcast({u}, Medias)
     \/ /\ u # NoUser
        /\ \E text \in AdminCommandTexts :
             Route(text) = lastEvent'.h /\ Update({u}, {text}, BOOLEAN, 0)

\* C11: an admin command of a sender who is not an operator changes neither
\* store, index, user directory, verified set nor counters, starts no
\* broadcast, and is answered with nothing or with the user help text.
C11_OperatorIsolation ==
  [][\A u \in Senders \ ADMIN_IDS :
       SendsAdminCommand(u)
       => /\ movies' = movies
          /\ index' = index
          /\ users_database' = users_database
          /\ verified_users' = verified_users
          /\ bot_stats' = bot_stats
          /\ tasks' = tasks
          /\ outbox' \in {<<>>, <<Msg(u, "user_help", TRUE)>>, <<Msg(u, "user_help", FALSE)>>}]_vars

\* Witness of C11: user 2, verified and in the directory, has called /help
\* and got the user help text.
C11_Witness ==
  /\ lastEvent.h = "cmd_help"
  /\ lastEvent.user = 2
  /\ outbox = <<Msg(2, "user_help", TRUE)>>
  /\ users_database = {1, 2}
  /\ verified_users = {2}

\* C12 as stated: an admin command sent by an operator as a message is
\* handled by that command's handler (/cleanup_users empties the directory
\* and is answered with the cleanup report).
C12_AdminCommandsRouted ==
  [][\A u \in ADMIN_IDS :
       /\ Update({u}, AdminCommandTexts, BOOLEAN, 0)
            => (lastEvent'.h # "handle_search" /\ outbox' # <<>>)
       /\ Update({u}, {CLEANUP_CMD}, BOOLEAN, 0)
            => /\ users_database' = {}
               /\ lastEvent'.h = "cmd_cleanup_users"
               /\ outbox' # <<>>
               /\ outbox'[1].kind = "cleanup_report"]_vars

\* C18 as stated, for /total_movies: while the session factory or the index
\* handle is unset, /total_movies of an operator is answered with a failure
\* message.
FailureKinds == {"db_failed", "session_unavailable", "count_error"}
C18_DegradedTotalMovies ==
  [][\A u \in ADMIN_IDS :
       (/\ ~SessionLocal \/ ~algolia_index
        /\ TotalMovies({u}) \/ Update({u}, {TOTAL_MOVIES_CMD}, BOOLEAN, 0))
       => /\ outbox' # <<>>
          /\ outbox'[1].kind \in FailureKinds]_vars

\* C19: a health request changes nothing but the answer it returns, and the
\* answer says "ok" ('/') or "healthy" ('/health') in every state.
C19_HealthReadOnly ==
  [][/\ Health => (UNCHANGED chatVars /\ UNCHANGED storeVars /\ UNCHANGED initVars)
     /\ health_check => (Len(outbox') = 1 /\ outbox'[1].kind = "ok")
     /\ health_endpoint => (Len(outbox') = 1 /\ outbox'[1].kind = "healthy")]_vars

\* Witness of C19: '/' has answered "ok" with nothing initialised, reporting
\* both dependencies as disconnected, while a user is verified.
C19_Witness ==
  /\ lastEvent.h = "health_check"
  /\ ~engine /\ ~SessionLocal /\ ~algolia_index
  /\ verified_users # {}
  /\ outbox = <<[to |-> NoUser, kind |-> "ok", ok |-> TRUE,
                 url |-> <<"disconnected", "disconnected", <<"0">> >>]>>

\* C20 as stated: no exception leaves a handler.
C20_NoExceptionEscapes == ~lastEvent.escaped

\* ------------------------------------------------ claims about the link
LINK_POST_1 ==
  <<"h","t","t","p","s",":","/","/","t",".","m","e","/","c","/",
    "3","1","3","8","9","4","9","0","1","5","/","1">>

\* C13: the URL sent for a selection is "https://t.me/c/" + the channel id
\* without "-100" + "/" + post_id, whoever selects and whatever the state.
C13_LinkDeterminism ==
  /\ \A i \in 1..Len(outbox) : outbox[i].kind = "link" => outbox[i].url = LINK_POST_1
  /\ PostUrl(OTHER_CHAT_ID, 27) = URL_PREFIX \o <<"1", "/", "2", "7">>
  /\ PostUrl(LIBRARY_CHANNEL_ID, 0 - 5)
       = URL_PREFIX \o <<"3","1","3","8","9","4","9","0","1","5","/","-","5">>

\* Witness of C13: user 2, verified, with one search counted and a listing
\* on the screen, has been sent the link of post 1.
C13_Witness ==
  /\ lastEvent.h = "send_movie_link"
  /\ lastEvent.user = 2
  /\ bot_stats.total_searches = 1
  /\ Len(outbox) = 3
  /\ outbox[1].kind = "delete"
  /\ outbox[2] = [to |-> 2, kind |-> "link", ok |-> TRUE, url |-> LINK_POST_1]

\* ------------------------------------------- claims about the backoff
\* C28: the wait after the k-th failed attempt, k = 1 .. max_retries - 1, is
\* base_delay * 2^(k-1); there is no wait before the first attempt and none
\* after the last failed one, so a call in which all max_retries >= 1
\* attempts fail has waited base_delay * (2^(max_retries-1) - 1) in total.
C28_BackoffSchedule ==
  /\ [][(boot.pc = "sleep" /\ boot'.pc # "sleep")
        => /\ boot.failed \in 1..(boot.max_retries - 1)
           /\ boot'.slept - boot.slept = boot.base_delay * 2^(boot.failed - 1)]_vars
  /\ [][boot.pc \in {"idle", "attempt"} => boot'.slept = boot.slept]_vars
  /\ []((boot.pc = "attempt" /\ boot.tried = 0) => boot.slept = 0)
  /\ []((boot.pc = "returned" /\ ~boot.ret /\ boot.max_retries >= 1)
        => /\ boot.failed = boot.max_retries
           /\ boot.slept = boot.base_delay * (2^(boot.max_retries - 1) - 1))

\* Witness of C28: the call with the defaults has failed five times and has
\* waited 2 + 4 + 8 + 16 = 30 seconds.
C28_Witness ==
  /\ boot.pc = "returned"
  /\ ~boot.ret
  /\ boot.max_retries = 5
  /\ boot.base_delay = 2
  /\ boot.failed = 5
  /\ boot.slept = 30

\* ------------------------------------- claims about the health flags
\* C29 as stated: '/' reports the database as connected only if the SELECT 1
\* check has succeeded in some attempt and Algolia as connected only if the
\* index was reached; after the start-up call has returned False the
\* database is reported as disconnected.
C29_HealthFlagsMatchOutcome ==
  [][(boot.pc = "running" /\ health_check)
     => /\ outbox'[1].url[1] = "connected" => boot.checked
        /\ outbox'[1].url[2] = "connected" => boot.reached
        /\ ~boot.ret => outbox'[1].url[1] = "disconnected"]_vars

\* ------------------------------------- claims about the indexing gap
\* C26: when save_object fails after the commit, the record stays in the
\* store, no document exists for it and the run returns False; a later run
\* for the same post id returns False at the duplicate query and writes
\* nothing, and the record never gets a document.
C26_PermanentIndexingGap ==
  /\ [](\A id \in failedSaves : HasRow(id) /\ ~HasDoc(id))
  /\ [][failedSaves \subseteq failedSaves']_vars
  /\ [][\A r \in InFlight :
          WorkerSave(r, FALSE)
          => /\ movies' = movies
             /\ index' = index
             /\ r.id \in failedSaves'
             /\ lastRun' = [post_id |-> r.post_id, ret |-> FALSE, second |-> r.second]]_vars
  /\ [][\A r \in InFlight :
          (/\ \E i \in 1..Len(movies) :
                movies[i].post_id = r.post_id /\ movies[i].id \in failedSaves
           /\ WorkerQuery(r, TRUE))
          => /\ movies' = movies
             /\ index' = index
             /\ Copies(r, workers') = Copies(r, workers) - 1
             /\ lastRun' = [post_id |-> r.post_id, ret |-> FALSE, second |-> r.second]]_vars

\* Witness of C26: a record was left without its document, and a run for
\* its post id that was handed off after the failed run had returned has
\* returned False; nothing is in flight and the document is still missing.
C26_Witness ==
  /\ Quiescent
  /\ lastRun.second
  /\ ~lastRun.ret
  /\ \E i \in 1..Len(movies) :
       /\ movies[i].post_id = lastRun.post_id
       /\ movies[i].id \in failedSaves
       /\ DocsWithPost(lastRun.post_id) = {}

\* C27: every document of the index carries the id (as objectID), the title
\* and the post id of one record of the store, and a document is written only
\* when its record is already in the store.
C27_IndexProjectsStore ==
  /\ [](\A d \in index : \E i \in 1..Len(movies) :
          /\ d.objectID = IntToStr(movies[i].id)
          /\ d.title = movies[i].title
          /\ d.post_id = movies[i].post_id)
  /\ [][\A d \in index' \ index : \E i \in 1..Len(movies) :
          /\ d.objectID = IntToStr(movies[i].id)
          /\ d.title = movies[i].title
          /\ d.post_id = movies[i].post_id]_vars

\* Witness of C27: a run has written the document of the record it inserted
\* and returned True.
C27_Witness ==
  /\ lastRun.ret
  /\ \E i \in 1..Len(movies) :
       /\ movies[i].post_id = lastRun.post_id
       /\ [objectID |-> IntToStr(movies[i].id), title |-> movies[i].title,
           post_id |-> movies[i].post_id] \in index

\* --------------------------------------- claims about the broadcast
\* The broadcast t runs on a directory nobody has modified since it started.
Unmodified(t) ==
  /\ t.pc = "broadcast"
  /\ ~t.cleared
  /\ users_database = t.dir
  /\ t.size \in {NoIterator, Cardinality(t.dir)}

\* The broadcast t ends in this step.
Ends(t) ==
  /\ Copies(t, tasks') < Copies(t, tasks)
  /\ BagCardinality(tasks') < BagCardinality(tasks)

\* C21: a broadcast over a directory of N entries that is not modified while
\* it runs makes at most one send attempt per entry and none to anybody else,
\* goes on after a failed send, and ends only with its summary, when every
\* entry has had exactly one attempt; the summary reports Sent = the number
\* of successful sends, Blocked/Failed = N - Sent and Total = N.
C21_BroadcastAccounting ==
  [][\A t \in Suspended :
       Unmodified(t)
       => /\ \A v \in UserIds : t.attempts[v] <= (IF v \in t.dir THEN 1 ELSE 0)
          /\ t.sent + (IF t.at = "sent" THEN 1 ELSE 0) = Cardinality(t.delivered)
          /\ Ends(t)
               => /\ \A v \in UserIds : t.attempts[v] = (IF v \in t.dir THEN 1 ELSE 0)
                  /\ Len(outbox') = 1
                  /\ outbox'[1].kind = "broadcast_summary"
                  /\ outbox'[1].to = t.user
                  /\ outbox'[1].url =
                       <<IntToStr(Cardinality(t.delivered)),
                         IntToStr(Cardinality(t.dir) - Cardinality(t.delivered)),
                         IntToStr(Cardinality(t.dir))>>]_vars

\* Witness of C21: a broadcast over the two entries of the directory, of
\* which one send failed, has ended with the summary Sent 1, Failed 1,
\* Total 2.
C21_Witness ==
  /\ lastEvent.h = "cmd_broadcast"
  /\ users_database = {1, 2}
  /\ tasks = EmptyBag
  /\ Len(outbox) = 1
  /\ outbox[1].kind = "broadcast_summary"
  /\ outbox[1].url = << <<"1">>, <<"1">>, <<"2">> >>

\* C22 as stated: a broadcast that has started iterating the directory ends
\* with its summary, whatever other handlers do while it is suspended.
C22_BroadcastNotAborted ==
  [][\A t \in Suspended :
       (t.pc = "broadcast" /\ t.size # NoIterator /\ Ends(t))
       => /\ outbox' # <<>>
          /\ outbox'[1].kind = "broadcast_summary"]_vars

\* ------------------------------- claims about the scheduling of handlers
\* C23 as stated: while a handler is suspended between its first and its
\* last step, no other handler starts.
C23_HandlersOneAtATime ==
  [][tasks # EmptyBag
     => ~(\/ Start(UserIds)
          \/ Joined(UserIds, BOOLEAN)
          \/ Query(UserIds, {RATE_LIMIT_MS}, BOOLEAN, MaxGateQueries)
          \/ Selection(UserIds, GateDatas, {TRUE})
          \/ Cleanup(ADMIN_IDS))]_vars

\* ------------------------------------------- claims about the counters
\* C25 as stated: no increment of a counter is lost: every write of
\* bot_stats["total_searches"] += 1 and of bot_stats["algolia_searches"] += 1
\* leaves the counter one above its value before the write.
C25_NoLostIncrement ==
  [][\A t \in Suspended :
       /\ SearchWriteTotal(t)
            => bot_stats'.total_searches = bot_stats.total_searches + 1
       /\ SearchWriteAlgolia(t)
            => bot_stats'.algolia_searches = bot_stats.algolia_searches + 1]_vars

\* ------------------------------------ claims about the result listings
\* C30 as stated: after a selection by a verified user has been processed
\* with every delete call succeeding, no result listing sent to that user
\* before the selection remains in the chat, also after several searches.
\* Stated for the selections made while no other handler is suspended, at
\* the step in which the selection has made its delete call, the only call
\* of a selection that removes a message.
C30_ListingCleanupOnSelection ==
  [][( /\ tasks = EmptyBag
       /\ lastEvent'.h = "send_movie_link"
       /\ lastEvent'.user \in verified_users
       /\ Len(outbox') = 1
       /\ outbox'[1].kind = "delete"
       /\ outbox'[1].ok )
     => {l \in listings' : l.to = lastEvent'.user} = {}]_vars

\* ------------------------------------- claims about the worker handoff
\* The steps the code hands to asyncio.to_thread.
OnWorkerThread == WorkerStep \/ SearchThread
\* A step of the function that calls algolia_index.search: it counts the
\* search in bot_stats.
InSearchFunction == bot_stats' # bot_stats

\* C24 as stated, for the search-index call: every step of the search function
\* is a step of a worker thread, never a step of the event loop.
C24_BlockingCallsOffLoop ==
  [][InSearchFunction => OnWorkerThread]_vars

\* ------------------------------------------ claims about the selection
\* C31: a selection whose delete_message fails still sends the link message
\* and, the link delivered, the success acknowledgment; the error answer
\* appears only after a send that failed, never because of the delete. Said
\* of the selections that have ended, and of the suspended ones by where
\* they resume: after the delete, whatever its outcome, at the link.
C31_BestEffortDeletion ==
  /\ ( /\ lastEvent.h = "send_movie_link"
       /\ lastEvent.done
       /\ outbox # <<>>
       /\ outbox[1].kind = "delete"
       /\ ~outbox[1].ok )
     => /\ Len(outbox) >= 2
        /\ outbox[2].kind = "link"
        /\ outbox[2].ok => (Len(outbox) >= 3 /\ outbox[3].kind = "link_ack")
        /\ \A i \in DOMAIN outbox :
             outbox[i].kind = "error"
             => \E j \in 1..(i - 1) : outbox[j].kind \in {"link", "link_ack"} /\ ~outbox[j].ok
  /\ \A t \in Suspended :
       ( /\ "log" \in DOMAIN t
         /\ t.h = "send_movie_link"
         /\ t.log # <<>>
         /\ t.log[1].kind = "delete" )
       => /\ Len(t.log) = 1 => t.pc = "link"
          /\ Len(t.log) = 2 => (t.log[2].kind = "link"
                                 /\ t.pc = (IF t.log[2].ok THEN "link_ack" ELSE "except"))
          /\ Len(t.log) = 3 => (t.log[3].kind = "link_ack" /\ ~t.log[3].ok /\ t.pc = "except")

\* The listing named in the session was deleted by an earlier selection; the
\* delete fails, the link and the acknowledgment are sent.
C31_Witness ==
  /\ lastEvent.h = "send_movie_link"
  /\ Len(outbox) = 3
  /\ outbox[1].kind = "delete" /\ ~outbox[1].ok
  /\ outbox[2].kind = "link" /\ outbox[2].ok
  /\ outbox[3].kind = "link_ack" /\ outbox[3].ok
  /\ LastListing(user_sessions, lastEvent.user) \notin listings

\* The part of the callback data after its first underscore.
AfterFirstUnderscore(data) == SubSeq(data, FindFrom(data, "_", 1) + 1, Len(data))
\* The handler is called for u with this callback data.
Selects(u, data) ==
  /\ lastEvent'.h = "send_movie_link"
  /\ lastEvent'.user = u
  /\ \E ok \in BOOLEAN : send_movie_link(u, data, ok)

\* C32 as stated: a selection by a verified user or an operator whose callback
\* data has no integer after its first underscore is answered with the error
\* acknowledgment; no link is sent, no listing is deleted, and the session,
\* the verified set, the directory and the counters are unchanged.
C32_MalformedSelection ==
  [][\A u \in UserIds, data \in Datas :
       ( /\ GateOpen(u, verified_users)
         /\ ~IsInt(AfterFirstUnderscore(data))
         /\ Selects(u, data) )
       => /\ outbox'[1].kind = "bad_choice"
          /\ \A i \in DOMAIN outbox' : outbox'[i].kind \notin {"link", "delete"}
          /\ listings' = listings
          /\ UNCHANGED <<user_sessions, verified_users, users_database, bot_stats>>]_vars

\* --------------------------------- claims about the empty broadcast
\* What the message carries after its command word.
CommandArgument(text) ==
  Strip(SubSeq(text, Len(Split(text, " ")[1]) + 1, Len(text)))
\* The handler is called for the operator u with this message.
Broadcasts(u, text, media) ==
  /\ lastEvent'.h = "cmd_broadcast"
  /\ lastEvent'.user = u
  /\ \E ok \in BOOLEAN : cmd_broadcast(u, text, media, ok)
\* The handler sends this one answer to the operator and starts no broadcast.
OnlyAnswer(u, kind) ==
  /\ Len(outbox') = 1
  /\ outbox'[1].kind = kind
  /\ outbox'[1].to = u
  /\ tasks' = tasks

\* C33 as stated: a /broadcast of an operator with no text and no photo or
\* video replied to sends the usage message and nothing else; one with
\* content while users_database is empty sends the 'no users' message and
\* nothing else.
C33_EmptyBroadcast ==
  [][\A u \in ADMIN_IDS, text \in BroadcastTexts, media \in Medias :
       Broadcasts(u, text, media)
       => IF CommandArgument(text) = <<>> /\ media \notin {"photo", "video"}
          THEN OnlyAnswer(u, "broadcast_usage")
          ELSE users_database = {} => OnlyAnswer(u, "broadcast_no_users")]_vars

\* -------------------------- claims about the way from a hit to its link
\* The hits of a search that carry a post_id, in the order of the hits.
Retained(hits) == SelectSeq(hits, LAMBDA d : d.post_id # 0)
\* The selection of u has its link call ahead, for this URL.
LinkAhead(u, url) ==
  \E t \in BagToSet(tasks') :
    /\ "log" \in DOMAIN t
    /\ CopiesIn(t, tasks') > CopiesIn(t, tasks)
    /\ t.h = "send_movie_link" /\ t.user = u /\ t.pc = "link" /\ t.url = url
\* The suspended selection t makes its link call in this step.
SendsLink(t) ==
  /\ "log" \in DOMAIN t
  /\ t.h = "send_movie_link"
  /\ t.pc = "link"
  /\ CopiesIn(t, tasks') < CopiesIn(t, tasks)
  /\ lastEvent'.h = "send_movie_link"
  /\ lastEvent'.user = t.user
\* The task t sends its listing in this step.
SendsListing(t) ==
  /\ t.pc = "reply"
  /\ CopiesIn(t, tasks') < CopiesIn(t, tasks)
  /\ lastEvent'.h = "handle_search_reply"
  /\ outbox' # <<>>
  /\ outbox'[1].kind = "listing"

\* C34: the listing has one option for each hit that carries a post_id and
\* none for the others, in the order of the hits and at most SEARCH_LIMIT of
\* them, each labelled with the title and carrying "post_" followed by the
\* post_id; the link sent when the option of a hit is pressed embeds the
\* post_id of that hit (the handler makes the link call at once or, a
\* listing being named in the session, after its delete call); and parsing
\* the callback data built from p gives back p.
C34_SelectionRoundTrip ==
  /\ [][\A t \in Suspended :
          SendsListing(t)
          => LET kb == outbox'[1].url
             IN /\ Len(kb) = Len(Retained(t.hits))
                /\ Len(kb) <= SEARCH_LIMIT
                /\ \A k \in DOMAIN kb :
                     /\ kb[k].text = Retained(t.hits)[k].title
                     /\ kb[k].data = <<"p","o","s","t","_">>
                                        \o IntToStr(Retained(t.hits)[k].post_id)]_vars
  /\ [][\A u \in UserIds, d \in {x \in index : x.post_id # 0} :
          (GateOpen(u, verified_users) /\ Selects(u, CallbackData(d.post_id)))
          => /\ \A i \in DOMAIN outbox' : outbox'[i].kind # "bad_choice"
             /\ \/ \E i \in DOMAIN outbox' :
                     /\ outbox'[i].kind = "link"
                     /\ outbox'[i].url = PostUrl(LIBRARY_CHANNEL_ID, d.post_id)
                \/ /\ outbox'[Len(outbox')].kind = "delete"
                   /\ LinkAhead(u, PostUrl(LIBRARY_CHANNEL_ID, d.post_id))]_vars
  /\ [][\A t \in Suspended :
          SendsLink(t)
          => /\ outbox'[Len(outbox')].kind = "link"
             /\ outbox'[Len(outbox')].to = t.user
             /\ outbox'[Len(outbox')].url = t.url]_vars
  /\ [](\A p \in (0 - MaxRoundTrip)..MaxRoundTrip :
          /\ Len(Split(CallbackData(p), "_")) = 2
          /\ IsInt(Split(CallbackData(p), "_")[2])
          /\ ParseInt(Split(CallbackData(p), "_")[2]) = p)

\* A user has pressed the option of the hit with post_id 10 in a listing of
\* two options and has been sent the link to post 10.
C34_Witness ==
  /\ lastEvent.h = "send_movie_link"
  /\ user_sessions # EmptyDict
  /\ \E i \in DOMAIN outbox :
       /\ outbox[i].kind = "link"
       /\ outbox[i].ok
       /\ outbox[i].url = PostUrl(LIBRARY_CHANNEL_ID, 10)

\* ------------------------------- claims about the frame of the limiter
\* C35: a query that check_rate_limit rejects leaves user_sessions as it is;
\* one it accepts changes the sender's last_action to the arrival time and
\* nothing else in user_sessions; so last_action is always the arrival time
\* of the user's last accepted query.
C35_DroppedQueryKeepsCooldown ==
  /\ [][\A u \in UserIds :
          (QueryArrives(u) /\ u \in ADMIN_IDS \cup verified_users)
          => IF tasks' = tasks
             THEN user_sessions' = user_sessions
             ELSE /\ DOMAIN user_sessions' = DOMAIN user_sessions \cup {u}
                  /\ \A v \in DOMAIN user_sessions \ {u} :
                       user_sessions'[v] = user_sessions[v]
                  /\ user_sessions'[u]["last_action"] = now'
                  /\ \A k \in DOMAIN user_sessions'[u] \ {"last_action"} :
                       /\ u \in DOMAIN user_sessions
                       /\ k \in DOMAIN user_sessions[u]
                       /\ user_sessions'[u][k] = user_sessions[u][k]]_vars
  /\ [](\A u \in UserIds :
          acceptedAt[u] # Never
          => /\ u \in DOMAIN user_sessions
             /\ user_sessions[u]["last_action"] = acceptedAt[u])

\* The operator's query was accepted, the next one 999 ms later was dropped,
\* and the third, 1 ms after the dropped one, has just been accepted: the
\* window ran from the first.
C35_Witness ==
  /\ nQueries = 3
  /\ verified_users = {}
  /\ queryAt = [u \in UserIds |-> IF u = AdminId THEN now ELSE Never]
  /\ lastEvent = Pending("handle_search", AdminId)
  /\ acceptedAt[AdminId] = StartTime + 1 + RATE_LIMIT_MS
  /\ user_sessions[AdminId]["last_action"] = now
  /\ BagCardinality(tasks) = 1

\* C36: whether a query of a user who passes the gate is accepted is decided
\* by the arrival time of that user's own last accepted query alone: it is
\* accepted exactly when there is none or it lies RATE_LIMIT_SECONDS or more
\* back, for operators as for verified users; and nothing but a query of the
\* user changes that arrival time or the last_action kept for it.
C36_RateLimitPerUser ==
  /\ [][\A u \in UserIds :
          (QueryArrives(u) /\ u \in ADMIN_IDS \cup verified_users)
          => IF acceptedAt[u] = Never \/ now' - acceptedAt[u] >= RATE_LIMIT_SECONDS * 1000
             THEN /\ acceptedAt'[u] = now'
                  /\ BagCardinality(tasks') = BagCardinality(tasks) + 1
             ELSE Dropped]_vars
  /\ [][\A u \in UserIds :
          ~QueryArrives(u)
          => /\ acceptedAt'[u] = acceptedAt[u]
             /\ (u \in DOMAIN user_sessions') = (u \in DOMAIN user_sessions)
             /\ u \in DOMAIN user_sessions
                  => DictGet(user_sessions'[u], "last_action", 0)
                       = DictGet(user_sessions[u], "last_action", 0)]_vars

\* The query of user 2 has been accepted 1 ms after the operator's query was
\* accepted: inside the operator's window, outside any of its own.
C36_Witness ==
  /\ lastEvent = Pending("handle_search", 2)
  /\ 2 \in verified_users
  /\ acceptedAt[2] = now
  /\ acceptedAt[AdminId] = now - 1
  /\ BagCardinality(tasks) = 1

\* --------------------------------- claims about the user directory
\* C37 as stated, at the moment of delivery: a user other than an operator
\* to whom a result listing or a link has just been delivered is a key of
\* users_database.
C37_DirectoryCoversActiveUsers ==
  \A i \in DOMAIN outbox :
    ( /\ outbox[i].kind \in {"listing", "link"}
      /\ outbox[i].ok
      /\ outbox[i].to \notin ADMIN_IDS )
    => outbox[i].to \in users_database

\* The step is /cleanup_users handled for u.
CleansUp(u) ==
  /\ lastEvent'.h = "cmd_cleanup_users"
  /\ lastEvent'.user = u
  /\ Cleanup({u})

\* C38: /cleanup_users of an operator empties users_database, answers with
\* the number of entries it held and nothing else, and leaves verified_users,
\* user_sessions, the counters, the catalog and the index unchanged; a
\* verified user who is not in the directory still has a query accepted, with
\* no join prompt.
C38_CleanupFrame ==
  /\ [][\A u \in ADMIN_IDS :
          CleansUp(u)
          => /\ users_database' = {}
             /\ Len(outbox') = 1
             /\ outbox'[1].kind = "cleanup_report"
             /\ outbox'[1].to = u
             /\ outbox'[1].url = IntToStr(Cardinality(users_database))
             /\ UNCHANGED <<verified_users, user_sessions, bot_stats, movies, index>>]_vars
  /\ [][\A u \in verified_users \ ADMIN_IDS :
          (QueryArrives(u) /\ u \notin users_database /\ ~RateLimited(user_sessions, u, now'))
          => /\ outbox' = <<>>
             /\ BagCardinality(tasks') = BagCardinality(tasks) + 1
             /\ verified_users' = verified_users]_vars

\* The operator has cleared a directory of two entries after a verified
\* user's search was counted; the report says 2.
C38_Witness ==
  /\ lastEvent.h = "cmd_cleanup_users"
  /\ lastEvent.user \in ADMIN_IDS
  /\ users_database = {}
  /\ outbox[1].kind = "cleanup_report"
  /\ outbox[1].url = <<"2">>
  /\ 2 \in verified_users
  /\ 2 \in DOMAIN user_sessions
  /\ bot_stats.total_searches = 1

\* C39 as stated, for its order and its monotonicity: in every state
\* 0 <= algolia_searches <= total_searches, and no step lowers a counter.
C39_CounterInvariant ==
  /\ [](0 <= bot_stats.algolia_searches)
  /\ [](bot_stats.algolia_searches <= bot_stats.total_searches)
  /\ [][/\ bot_stats'.total_searches >= bot_stats.total_searches
        /\ bot_stats'.algolia_searches >= bot_stats.algolia_searches]_vars

====
